---- MODULE Spec2Model ----
(***************************************************************************)
(* A model of the layouts-service window model: snap groups               *)
(* (DesktopSnapGroup.ts), the tab service (TabService.ts), the tab strip's *)
(* TabManager (tab-ui/ts/TabManager.ts) and the configuration utilities    *)
(* (ConfigUtil.ts).                                                        *)
(***************************************************************************)
EXTENDS Integers, Sequences, FiniteSets, TLC

\* ------------------------------------------------------------------------
\* Bounds of the model
\* ------------------------------------------------------------------------
NumWindows == 3
MaxGroups == 4
MaxSlots == 2
MaxEntries == 2
MaxTabGroups == 1
NumTabs == 3
MaxGroupIDs == 2
MaxCalls == 2
MaxTabObjects == 4
MaxSnapWindows == 2
MaxListeners == 2
MaxMerged == 2
MaxStored == 1
MaxRules == 1
MaxMembers == 3
MaxHitGroups == 2
MaxExtent == 6
MaxSavedGroups == 2
MaxSavedTabs == 4
MaxPreviewGroups == 2
MaxPreviewWindows == 2
MaxPoolWindows == 4
MaxTracked == 2
MaxPending == 2

Windows == 1..NumWindows
Groups == 1..MaxGroups
NoGroup == 0
TabGroupIds == 1..MaxTabGroups
NoTabGroup == 0
TabIdentifiers == 1..NumTabs
GroupIDs == 1..MaxGroupIDs
Calls == 1..MaxCalls

\* ------------------------------------------------------------------------
\* Array helpers (Array.prototype.includes / indexOf / splice / push)
\* ------------------------------------------------------------------------
Range(s) == {s[i] : i \in 1..Len(s)}

includes(s, x) == \E i \in 1..Len(s) : s[i] = x

\* 1-based position of the first occurrence of x, 0 when absent (JS: -1)
indexOf(s, x) ==
    IF includes(s, x) THEN CHOOSE i \in 1..Len(s) : s[i] = x /\ \A j \in 1..(i - 1) : s[j] # x
    ELSE 0

\* s.splice(i, 1) with a 1-based i: nothing is removed past the end of the array,
\* and position 0 (JS: -1) counts from the end and removes the last element
splice(s, i) ==
    IF i > Len(s) \/ s = <<>> THEN s
    ELSE LET at == IF i = 0 THEN Len(s) ELSE i
         IN [k \in 1..(Len(s) - 1) |-> IF k < at THEN s[k] ELSE s[k + 1]]

Count(s, x) == Cardinality({i \in 1..Len(s) : s[i] = x})

\* ------------------------------------------------------------------------
\* Identities and scopes of the windows of the model
\* ------------------------------------------------------------------------
uuidOf(w) == IF w = NumWindows THEN "app2" ELSE "app1"
nameOf(w) == w

WindowScope(w) == [level |-> "window", uuid |-> uuidOf(w), name |-> nameOf(w)]
\* The scopes at which rules are added to the store: the windows' own scopes
SourceScopes == {WindowScope(w) : w \in Windows}

\* ------------------------------------------------------------------------
\* State
\* ------------------------------------------------------------------------
VARIABLES
    nextId,       \* DesktopSnapGroup.nextId
    windows,      \* DesktopSnapGroup._windows, per group id
    entities,     \* DesktopSnapGroup._entities, per group id
    rootWindow,   \* DesktopSnapGroup.rootWindow, per group id
    stale,        \* stale flags of DesktopSnapGroup._origin / _halfSize
    snapGroup,    \* DesktopWindow.getSnapGroup(), per window
    prevGroup,    \* DesktopWindow.getPrevGroup(), per window
    life,         \* "none" (not yet created), "live", "dead" (torn down)
    ready,        \* DesktopWindow.isReady()
    onTeardown,   \* number of onWindowTeardown slots on window.onTeardown
    onModified,   \* groups listening on window.onModified/onTransform/onCommit
    grouped,      \* the client's view: joined a snap group and not left it
    sent,         \* messages sent to windows by the last operation
    emitted,      \* signals emitted by the last operation
    observed,     \* what a listener of each emitted signal finds when it is called
    lastOp,       \* the last operation: the call made on a snap group, if any
    tabGroup,     \* DesktopWindow.getTabGroup(), per window
    tabs,         \* DesktopTabGroup.tabs, per tab group id
    entries,      \* the configuration store's entries, in insertion order
    registered,   \* whether the window is registered with the engine
    tabGroups,    \* TabService._tabGroups: the IDs of its tab groups, in order
    groupTabs,    \* TabGroup.tabs, per tab group ID
    nextGroupID,  \* the ID of the next TabGroup constructed
    calls,        \* the TabService calls in flight, each at one of its awaits
    signals,      \* emissions of tabGroupAdded / tabGroupRemoved, per tab group ID
    groupActive,  \* TabGroup.activeTab, per tab group ID (NoActiveTab = undefined)
    saveCall,     \* the call of getTabSaveInfo in flight, at its await
    tmTabs,       \* TabManager.tabs: the Tab objects of the tab strip
    tmActiveTab,  \* TabManager.activeTab (NoTab = null)
    tmNextTab,    \* serial number of the next Tab object constructed
    tmActive,     \* the Tab objects marked active by Tab.setActive()
    tsTabs,       \* SnapTabSet.tabs: the SnapWindow objects of the tab set
    tsListeners,  \* registrations of onWindowTransformed on each SnapWindow's onTransform
    tsTabSet,     \* per SnapWindow: whether its tabSet refers to the tab set
    tsState,      \* SnapTabSet.state: center and halfSize of the tab strip, as the object holds them
    tsPseudoState,\* SnapTabSet.pseudoState: center and halfSize
    tsAliased,    \* whether pseudoState.center / .halfSize are the objects state.center / .halfSize
    tsInitialised,\* SnapTabSet.initialised
    tsActiveState,\* the state of the window of tabGroup.activeTab
    tsStripState, \* the state of the tab strip's window (what getWindowState returns)
    tsRan,        \* whether the last operation on the tab set ran setBounds
    pvActive,     \* SnapPreview.pool.active: the preview windows shown
    pvFree,       \* SnapPreview.pool.free: the preview windows kept hidden
    pvActiveGroup,\* SnapPreview.activeGroup (0 = null)
    pvIsValid,    \* SnapPreview.isValid
    pvCall,       \* the last call made on the SnapPreview, if any
    pvCreated,    \* the number of preview windows constructed by createWindow so far
    mtWindow,     \* MouseTracker.window (0 = null)
    mtMouseOffset,\* MouseTracker.mouseOffset: the window it was measured against (0 = null)
    mtOnTransform,\* per window: whether MouseTracker.start is a listener of its onTransform
    mtOnCommit,   \* per window: whether MouseTracker.end is a listener of its onCommit
    mtPending,    \* the calls of MouseTracker.start awaiting the mouse position, oldest first
    mtLife,       \* per window: "none", "live" (DesktopWindow.onCreated emitted) or "dead"
    mtDrag,       \* the window the user is dragging (0 = none): transforms, then a commit
    mtRaced,      \* whether the last commit was delivered while a start of its window was pending
    mtInOrder,    \* whether every commit so far was delivered with no start of its window pending
    input,        \* the arguments of a call of one of ConfigUtil's functions
    output        \* what the call returned, once it has been made

snapVars == <<nextId, windows, entities, rootWindow, stale, snapGroup, prevGroup, life, ready,
              onTeardown, onModified, grouped, sent, emitted, observed, lastOp>>
tabVars == <<tabGroup, tabs>>
configVars == <<entries, registered>>
modelVars == <<snapVars, tabVars, configVars>>
serviceVars == <<tabGroups, groupTabs, nextGroupID, calls, signals, groupActive, saveCall>>
managerVars == <<tmTabs, tmActiveTab, tmNextTab, tmActive>>
tabSetVars == <<tsTabs, tsListeners, tsTabSet, tsState, tsPseudoState, tsAliased, tsInitialised,
                tsActiveState, tsStripState, tsRan>>
previewVars == <<pvActive, pvFree, pvActiveGroup, pvIsValid, pvCall, pvCreated>>
mouseVars == <<mtWindow, mtMouseOffset, mtOnTransform, mtOnCommit, mtPending, mtLife, mtDrag, mtRaced,
               mtInOrder>>
utilVars == <<input, output>>

\* What the operations of one part of the program leave unchanged
exceptModel == <<serviceVars, managerVars, tabSetVars, previewVars, mouseVars, utilVars>>
exceptService == <<modelVars, managerVars, tabSetVars, previewVars, mouseVars, utilVars>>
exceptManager == <<modelVars, serviceVars, tabSetVars, previewVars, mouseVars, utilVars>>
exceptTabSet == <<modelVars, serviceVars, managerVars, previewVars, mouseVars, utilVars>>
exceptPreview == <<modelVars, serviceVars, managerVars, tabSetVars, mouseVars, utilVars>>
exceptMouse == <<modelVars, serviceVars, managerVars, tabSetVars, previewVars, utilVars>>
exceptUtil == <<modelVars, serviceVars, managerVars, tabSetVars, previewVars, mouseVars>>

\* The part of the state that the snap group's handlers read and write
State ==
    [nextId |-> nextId, windows |-> windows, entities |-> entities, rootWindow |-> rootWindow,
     stale |-> stale, snapGroup |-> snapGroup, prevGroup |-> prevGroup, ready |-> ready,
     onTeardown |-> onTeardown, onModified |-> onModified, grouped |-> grouped,
     sent |-> <<>>, emitted |-> <<>>, observed |-> <<>>, tabGroup |-> tabGroup, tabs |-> tabs,
     registered |-> registered]

JOIN_SNAP_GROUP == "join-snap-group"
LEAVE_SNAP_GROUP == "leave-snap-group"
LEAVE_TAB_GROUP == "leave-tab-group"

\* ------------------------------------------------------------------------
\* DesktopWindow (its messages and membership pointers)
\* ------------------------------------------------------------------------

\* window.sendMessage(kind): delivered to the client, whose listeners track the
\* grouped status (join-snap-group / leave-snap-group)
sendMessage(s, w, kind) ==
    [s EXCEPT !.sent = Append(@, <<kind, w>>),
              !.grouped[w] = IF kind \in {JOIN_SNAP_GROUP, LEAVE_SNAP_GROUP}
                             THEN kind = JOIN_SNAP_GROUP ELSE @]

\* What a listener called with (group, window) reads from the model at that moment
observe(s, g, w) ==
    IF g \in Groups /\ w \in Windows
    THEN [inWindows |-> includes(s.windows[g], w),
          snapGroup |-> s.snapGroup[w],
          holders |-> {h \in Groups : includes(s.windows[h], w)},
          inEntities |-> includes(s.entities[g], <<"window", w>>),
          isRoot |-> s.rootWindow[g] = <<"window", w>>]
    ELSE [inWindows |-> FALSE, snapGroup |-> NoGroup, holders |-> {},
          inEntities |-> FALSE, isRoot |-> FALSE]

\* signal.emit(group, window): the listeners run synchronously, inside the emitting call
emit(s, signal, g, w) ==
    [s EXCEPT !.emitted = Append(@, <<signal, g, w>>),
              !.observed = Append(@, observe(s, g, w))]

\* window.setSnapGroup(group): the pointer update; its call back into
\* group.addWindow(window) is made by the callers below
setSnapGroup(s, w, g) ==
    IF s.snapGroup[w] # g
    THEN [s EXCEPT !.prevGroup[w] = s.snapGroup[w], !.snapGroup[w] = g]
    ELSE s

\* ------------------------------------------------------------------------
\* DesktopSnapGroup
\* ------------------------------------------------------------------------
markStale(s, g) == [s EXCEPT !.stale[g] = [origin |-> TRUE, halfSize |-> TRUE]]

entityOf(s, w) ==
    IF s.tabGroup[w] # NoTabGroup /\ Len(s.tabs[s.tabGroup[w]]) > 1
    THEN <<"tabGroup", s.tabGroup[w]>>
    ELSE <<"window", w>>

RECURSIVE entitiesFrom(_, _, _)
entitiesFrom(s, ws, acc) ==
    IF ws = <<>> THEN acc
    ELSE LET entity == entityOf(s, Head(ws))
         IN entitiesFrom(s, Tail(ws), IF ~includes(acc, entity) THEN Append(acc, entity) ELSE acc)

buildEntities(s, g) == [s EXCEPT !.entities[g] = entitiesFrom(s, s.windows[g], <<>>)]

checkRoot(s, g) ==
    LET first == IF Len(s.windows[g]) > 0 THEN s.windows[g][1] ELSE 0
        tg == IF first # 0 THEN s.tabGroup[first] ELSE NoTabGroup
        root == IF tg # NoTabGroup /\ Len(s.tabs[tg]) >= 2 THEN <<"tabstrip", tg>>
                ELSE IF first # 0 THEN <<"window", first>>
                ELSE <<"null", 0>>
    IN IF s.rootWindow[g] # root
       THEN markStale([s EXCEPT !.rootWindow[g] = root], g)
       ELSE s

\* removeWindow with LEAVE_SNAP_GROUP sent whatever the size of the group
removeWindow_leaveAlways(s, g, w) ==
    LET index == indexOf(s.windows[g], w)
    IN IF index >= 1
       THEN LET s1 == buildEntities([s EXCEPT !.windows[g] = splice(@, index)], g)
                s2 == [s1 EXCEPT !.onModified[w] = @ \ {g}]
                s3 == markStale(checkRoot(s2, g), g)
                s4 == IF s3.ready[w] THEN sendMessage(s3, w, LEAVE_SNAP_GROUP) ELSE s3
                s5 == emit(emit(s4, "onModified", g, w), "onWindowRemoved", g, w)
            IN IF Len(s5.windows[g]) = 0 THEN emit(s5, "onDestroyed", g, 0) ELSE s5
       ELSE s

\* removeWindow with onDestroyed emitted on every removal
removeWindow_destroyAlways(s, g, w) ==
    LET index == indexOf(s.windows[g], w)
    IN IF index >= 1
       THEN LET s1 == buildEntities([s EXCEPT !.windows[g] = splice(@, index)], g)
                s2 == [s1 EXCEPT !.onModified[w] = @ \ {g}]
                s3 == markStale(checkRoot(s2, g), g)
                s4 == IF Len(s3.windows[g]) > 0 /\ s3.ready[w]
                      THEN sendMessage(s3, w, LEAVE_SNAP_GROUP)
                      ELSE s3
                s5 == emit(emit(s4, "onModified", g, w), "onWindowRemoved", g, w)
            IN emit(s5, "onDestroyed", g, 0)
       ELSE s

removeWindow(s, g, w) ==
    LET index == indexOf(s.windows[g], w)
    IN IF index >= 1
       THEN LET s1 == buildEntities([s EXCEPT !.windows[g] = splice(@, index)], g)
                s2 == [s1 EXCEPT !.onModified[w] = @ \ {g}]
                s3 == markStale(checkRoot(s2, g), g)
                s4 == IF Len(s3.windows[g]) > 0 /\ s3.ready[w]
                      THEN sendMessage(s3, w, LEAVE_SNAP_GROUP)
                      ELSE s3
                s5 == emit(emit(s4, "onModified", g, w), "onWindowRemoved", g, w)
            IN IF Len(s5.windows[g]) = 0 THEN emit(s5, "onDestroyed", g, 0) ELSE s5
       ELSE s

\* addWindow that leaves the window in its previous group
addWindow_noDetach(s, g, w) ==
    IF ~includes(s.windows[g], w)
    THEN LET s2 == [s EXCEPT !.onModified[w] = @ \cup {g}, !.onTeardown[w] = @ + 1]
             s3 == checkRoot(buildEntities([s2 EXCEPT !.windows[g] = Append(@, w)], g), g)
             s4 == IF s3.snapGroup[w] # g THEN setSnapGroup(s3, w, g) ELSE s3
             s5 == markStale(s4, g)
             s6 == IF Len(s5.windows[g]) >= 2 THEN sendMessage(s5, w, JOIN_SNAP_GROUP) ELSE s5
         IN emit(s6, "onWindowAdded", g, w)
    ELSE s

\* addWindow with JOIN_SNAP_GROUP sent whatever the size of the group
addWindow_joinAlways(s, g, w) ==
    IF ~includes(s.windows[g], w)
    THEN LET prev == IF s.snapGroup[w] = g THEN s.prevGroup[w] ELSE s.snapGroup[w]
             s1 == IF prev # NoGroup THEN removeWindow(s, prev, w) ELSE s
             s2 == [s1 EXCEPT !.onModified[w] = @ \cup {g}, !.onTeardown[w] = @ + 1]
             s3 == checkRoot(buildEntities([s2 EXCEPT !.windows[g] = Append(@, w)], g), g)
             s4 == IF s3.snapGroup[w] # g THEN setSnapGroup(s3, w, g) ELSE s3
             s5 == markStale(s4, g)
         IN emit(sendMessage(s5, w, JOIN_SNAP_GROUP), "onWindowAdded", g, w)
    ELSE s

addWindow(s, g, w) ==
    IF ~includes(s.windows[g], w)
    THEN LET prev == IF s.snapGroup[w] = g THEN s.prevGroup[w] ELSE s.snapGroup[w]
             s1 == IF prev # NoGroup THEN removeWindow(s, prev, w) ELSE s
             s2 == [s1 EXCEPT !.onModified[w] = @ \cup {g}, !.onTeardown[w] = @ + 1]
             s3 == checkRoot(buildEntities([s2 EXCEPT !.windows[g] = Append(@, w)], g), g)
             \* setSnapGroup calls back into addWindow, which returns at once
             \* because the window is now in _windows
             s4 == IF s3.snapGroup[w] # g THEN setSnapGroup(s3, w, g) ELSE s3
             s5 == markStale(s4, g)
             s6 == IF Len(s5.windows[g]) >= 2 THEN sendMessage(s5, w, JOIN_SNAP_GROUP) ELSE s5
         IN emit(s6, "onWindowAdded", g, w)
    ELSE s

\* onWindowTeardown that removes the window from its previous group
RECURSIVE onWindowTeardown_prevGroup(_, _, _)
onWindowTeardown_prevGroup(s, w, n) ==
    IF n = 0 \/ s.prevGroup[w] = NoGroup THEN s
    ELSE onWindowTeardown_prevGroup(removeWindow(s, s.prevGroup[w], w), w, n - 1)

\* onWindowTeardown, run once per slot registered on window.onTeardown
RECURSIVE onWindowTeardown(_, _, _)
onWindowTeardown(s, w, n) ==
    IF n = 0 THEN s
    ELSE onWindowTeardown(removeWindow(s, s.snapGroup[w], w), w, n - 1)

\* Mask<eTransformType>: the kinds of change of one transform
MOVE == {"MOVE"}
RESIZE == {"RESIZE"}
TransformTypes == {MOVE, RESIZE, MOVE \cup RESIZE}

onWindowModified(s, g, w) == emit(markStale(s, g), "onModified", g, w)

\* onWindowTransform that leaves the cached bounds as they are
onWindowTransform_noStale(s, g, w, type) ==
    IF type = MOVE THEN emit(s, "onTransform", g, w) ELSE emit(s, "onTransform", g, w)

\* onWindowTransform(window, type): both branches on the type emit onTransform
onWindowTransform(s, g, w, type) ==
    LET s1 == IF type = MOVE THEN emit(s, "onTransform", g, w) ELSE emit(s, "onTransform", g, w)
    IN IF type \cap RESIZE # {} THEN markStale(s1, g) ELSE s1

\* window.onTransform.emit(window, type): the handler of every snap group that
\* listens on the window is run, in the order of the groups' ids
RECURSIVE raiseTransform(_, _, _, _)
raiseTransform(s, listeners, w, type) ==
    IF listeners = {} THEN s
    ELSE LET g == CHOOSE x \in listeners : \A y \in listeners : x <= y
         IN raiseTransform(onWindowTransform(s, g, w, type), listeners \ {g}, w, type)

RECURSIVE raiseModified(_, _, _)
raiseModified(s, listeners, w) ==
    IF listeners = {} THEN s
    ELSE LET g == CHOOSE x \in listeners : \A y \in listeners : x <= y
         IN raiseModified(onWindowModified(s, g, w), listeners \ {g}, w)

\* One move of a whole group: each of its windows raises onTransform(MOVE)
RECURSIVE moveWindows(_, _)
moveWindows(s, ws) ==
    IF ws = <<>> THEN s
    ELSE moveWindows(raiseTransform(s, s.onModified[Head(ws)], Head(ws), MOVE), Tail(ws))

\* CalculatedProperty.value: a stale property is refreshed by
\* calculateProperties, which updates the origin and the halfSize
readValue(s, g, property) ==
    IF s.stale[g][property] THEN [s EXCEPT !.stale[g] = [origin |-> FALSE, halfSize |-> FALSE]]
    ELSE s

\* Writes the handlers' result back to the state
min(a, b) == IF a <= b THEN a ELSE b
max(a, b) == IF a >= b THEN a ELSE b

\* windows.filter(window => !state.hidden && state.state === 'normal')
RECURSIVE filterWindows(_)
filterWindows(states) ==
    IF states = <<>> THEN <<>>
    ELSE IF ~Head(states).hidden /\ Head(states).state = "normal"
         THEN <<Head(states)>> \o filterWindows(Tail(states))
         ELSE filterWindows(Tail(states))

\* The loop of calculateProperties over windows[i .. numWindows - 1]
RECURSIVE extend(_, _, _)
extend(box, states, i) ==
    IF i > Len(states) THEN box
    ELSE LET state == states[i]
         IN extend([min |-> [x |-> min(box.min.x, state.center.x - state.halfSize.x),
                             y |-> min(box.min.y, state.center.y - state.halfSize.y)],
                    max |-> [x |-> max(box.max.x, state.center.x + state.halfSize.x),
                             y |-> max(box.max.y, state.center.y + state.halfSize.y)]],
                   states, i + 1)

\* calculateProperties on the states of the group's windows and of its root
\* window: the new values of _origin and _halfSize. Coordinates are even
\* numbers, so that the halvings are exact.
calculateProperties(states, root) ==
    LET windows_ == IF Len(states) > 1 THEN filterWindows(states) ELSE states
        numWindows == Len(windows_)
    IN IF numWindows = 0
       THEN [origin |-> [x |-> 0, y |-> 0], halfSize |-> [x |-> 0, y |-> 0]]
       ELSE IF numWindows = 1
       THEN [origin |-> [x |-> 0, y |-> 0], halfSize |-> root.halfSize]
       ELSE LET state == windows_[1]
                box == extend([min |-> [x |-> state.center.x - state.halfSize.x,
                                        y |-> state.center.y - state.halfSize.y],
                               max |-> [x |-> state.center.x + state.halfSize.x,
                                        y |-> state.center.y + state.halfSize.y]],
                              windows_, 2)
            IN [origin |-> [x |-> ((box.min.x + box.max.x) \div 2) - root.center.x,
                            y |-> ((box.min.y + box.max.y) \div 2) - root.center.y],
                halfSize |-> [x |-> (box.max.x - box.min.x) \div 2,
                              y |-> (box.max.y - box.min.y) \div 2]]

\* get center(), for a group that has a root window
center(root, origin) == [x |-> root.center.x + origin.x, y |-> root.center.y + origin.y]

Apply(s) ==
    /\ nextId' = s.nextId
    /\ tabGroup' = s.tabGroup
    /\ tabs' = s.tabs
    /\ registered' = s.registered
    /\ windows' = s.windows
    /\ entities' = s.entities
    /\ rootWindow' = s.rootWindow
    /\ stale' = s.stale
    /\ snapGroup' = s.snapGroup
    /\ prevGroup' = s.prevGroup
    /\ onTeardown' = s.onTeardown
    /\ onModified' = s.onModified
    /\ grouped' = s.grouped
    /\ sent' = s.sent
    /\ emitted' = s.emitted
    /\ observed' = s.observed
    /\ UNCHANGED exceptModel

\* ------------------------------------------------------------------------
\* ConfigUtil and the configuration store
\* ------------------------------------------------------------------------
scopePriorityMap(level) ==
    CASE level = "service" -> 0
      [] level = "desktop" -> 1
      [] level = "application" -> 2
      [] level = "window" -> 3

scopePriorityLookup == <<"service", "desktop", "application", "window">>

scopesEqual(a, b) ==
    IF a.level # b.level THEN FALSE
    ELSE CASE a.level = "application" -> a.uuid = b.uuid
           [] a.level = "window" -> a.uuid = b.uuid /\ a.name = b.name
           [] OTHER -> TRUE

\* matchesScope that compares the levels only
matchesScope_levelOnly(spec, value) ==
    scopePriorityMap(spec.level) <= scopePriorityMap(value.level)

matchesScope(spec, value) ==
    LET levelSpec == scopePriorityMap(spec.level)
        levelValue == scopePriorityMap(value.level)
    IN IF levelSpec # levelValue THEN levelSpec < levelValue ELSE scopesEqual(spec, value)

\* ruleCanBeAddedInScope with the comparison of ruleCanBeUsedInScope
ruleCanBeAddedInScope_asUsed(rule, scope) ==
    scopePriorityMap(rule.level) <= scopePriorityMap(scope.level)

ruleCanBeAddedInScope(rule, scope) ==
    scopePriorityMap(rule.level) >= scopePriorityMap(scope.level)

ruleCanBeUsedInScope(rule, scope) ==
    scopePriorityMap(rule.level) <= scopePriorityMap(scope.level)

\* A filter is absent (NoFilter), a string, or a RegEx; a RegEx is given by the
\* strings its expression accepts and by its invert flag
NoFilter == [type |-> "undefined"]
StringFilter(s) == [type |-> "string", string |-> s]
RegEx(accepted, invert) == [type |-> "object", accepted |-> accepted, invert |-> invert]

\* checkPattern that does not look at a RegEx's invert flag
checkPattern_noInvert(filter, value) ==
    IF filter = NoFilter THEN TRUE
    ELSE IF filter.type = "string" THEN filter.string = value
    ELSE value \in filter.accepted

checkPattern(filter, value) ==
    IF filter = NoFilter THEN TRUE
    ELSE IF filter.type = "string" THEN filter.string = value
    ELSE (value \in filter.accepted) = ~filter.invert

matchesRule(rule, scope) ==
    IF ~ruleCanBeUsedInScope(rule, scope) THEN FALSE
    ELSE CASE rule.level = "window" ->
                  IF ~checkPattern(rule.name, scope.name) THEN FALSE
                  ELSE IF rule.uuid # NoFilter /\ ~checkPattern(rule.uuid, scope.uuid) THEN FALSE
                  ELSE TRUE
           [] rule.level = "application" ->
                  IF rule.uuid # NoFilter /\ ~checkPattern(rule.uuid, scope.uuid) THEN FALSE
                  ELSE TRUE
           [] OTHER -> TRUE

\* value instanceof Object, for the member `key' of a configuration object: the
\* configuration schema types each member, 'features' being the object-valued one
ObjectKeys == {"features"}
isObject(key) == key \in ObjectKeys

RECURSIVE deepCopy(_)
deepCopy(value) ==
    [key \in DOMAIN value |-> IF isObject(key) THEN deepCopy(value[key]) ELSE value[key]]

\* deepAssign that assigns each member of value as a whole (Object.assign)
deepAssign_shallow(target, value) ==
    [key \in (DOMAIN target) \cup (DOMAIN value) |->
        IF key \in DOMAIN value THEN value[key] ELSE target[key]]

RECURSIVE deepAssign(_, _)
deepAssign(target, value) ==
    [key \in (DOMAIN target) \cup (DOMAIN value) |->
        IF key \notin DOMAIN value THEN target[key]
        ELSE IF key \notin DOMAIN target
             THEN (IF isObject(key) THEN deepCopy(value[key]) ELSE value[key])
        ELSE IF isObject(key) THEN deepAssign(target[key], value[key])
        ELSE value[key]]

\* A mask is a boolean or an object of masks
MaskBoolean(b) == [type |-> "boolean", value |-> b]
MaskObject(members) == [type |-> "object", members |-> members]

inMask(mask, key) ==
    IF mask.type = "boolean" THEN mask.value
    ELSE key \in DOMAIN mask.members /\ mask.members[key] = MaskBoolean(TRUE)

RECURSIVE deepAssignMask(_, _, _)
RECURSIVE assignProp(_, _, _, _)
RECURSIVE assignProps(_, _, _, _)

\* The loop of deepAssignMask over the keys that pass its test
assignProps(target, value, keys, mask) ==
    IF keys = {} THEN target
    ELSE LET key == CHOOSE k \in keys : TRUE
         IN assignProps(IF key \in DOMAIN value /\ inMask(mask, key)
                        THEN assignProp(target, value, key, mask) ELSE target,
                        value, keys \ {key}, mask)

deepAssignMask(target, value, mask) ==
    LET keys == IF mask.type = "object" THEN DOMAIN mask.members ELSE DOMAIN value
    IN IF mask = MaskBoolean(FALSE) THEN target
       ELSE assignProps(target, value, keys, mask)

assignProp(target, value, key, mask) ==
    IF ~isObject(key)
    THEN (key :> value[key]) @@ target
    ELSE IF key \notin DOMAIN target /\ inMask(mask, key)
    THEN (key :> deepCopy(value[key])) @@ target
    ELSE (key :> deepAssignMask(IF key \in DOMAIN target THEN target[key] ELSE <<>>,
                                value[key],
                                IF mask.type = "object" THEN mask.members[key] ELSE mask))
         @@ target

DefaultConfig == [enabled |-> TRUE]

\* Whether the rules of an entry, if it has any, match the scope
rulesMatch(e, scope) ==
    "rules" \in DOMAIN e => \A i \in 1..Len(e.rules) : matchesRule(e.rules[i], scope)

\* mergeLevel that does not look at the rules of the entries
RECURSIVE mergeLevel_ignoreRules(_, _, _, _)
mergeLevel_ignoreRules(target, es, level, scope) ==
    IF es = <<>> THEN target
    ELSE LET e == Head(es)
         IN mergeLevel_ignoreRules(IF e.scope.level = level /\ matchesScope(e.scope, scope)
                                   THEN deepAssign(target, e.config) ELSE target,
                                   Tail(es), level, scope)

\* Deep-merges, in insertion order, the entries of one level that match the scope
RECURSIVE mergeLevel(_, _, _, _)
mergeLevel(target, es, level, scope) ==
    IF es = <<>> THEN target
    ELSE LET e == Head(es)
         IN mergeLevel(IF /\ e.scope.level = level
                          /\ matchesScope(e.scope, scope)
                          /\ rulesMatch(e, scope)
                       THEN deepAssign(target, e.config) ELSE target,
                       Tail(es), level, scope)

\* The effective configuration at a scope: the matching entries, broadest level first
RECURSIVE queryFrom(_, _, _, _)
queryFrom(target, es, scope, p) ==
    IF p > Len(scopePriorityLookup) THEN target
    ELSE queryFrom(mergeLevel(target, es, scopePriorityLookup[p], scope), es, scope, p + 1)

query(es, scope) == queryFrom(DefaultConfig, es, scope, 1)

enabledIn(es, w) == query(es, WindowScope(w)).enabled

\* add(sourceScope, config): the entry is stored unless one of its rules is of a
\* level broader than the source scope's
add(es, e) ==
    IF "rules" \in DOMAIN e
       => \A i \in 1..Len(e.rules) : ruleCanBeAddedInScope(e.rules[i], e.scope)
    THEN Append(es, e)
    ELSE es

\* ------------------------------------------------------------------------
\* DesktopTabGroup, DesktopModel and the layout engine's handlers
\* ------------------------------------------------------------------------

\* tabGroup.removeTab(w): a tab group left with fewer than two tabs is torn down
\* and its surviving tab becomes standalone
removeTab(s, w) ==
    LET t == s.tabGroup[w]
        rest == splice(s.tabs[t], indexOf(s.tabs[t], w))
        s1 == sendMessage(s, w, LEAVE_TAB_GROUP)
    IN IF t = NoTabGroup THEN s
       ELSE IF Len(rest) < 2
       THEN [s1 EXCEPT !.tabs[t] = <<>>,
                       !.tabGroup = [x \in Windows |-> IF s.tabGroup[x] = t THEN NoTabGroup ELSE @[x]]]
       ELSE [s1 EXCEPT !.tabs[t] = rest, !.tabGroup[w] = NoTabGroup]

\* A new managed window is placed in a fresh singleton snap group
register(s, w) ==
    LET g == s.nextId
        s1 == [s EXCEPT !.nextId = @ + 1, !.snapGroup[w] = g, !.prevGroup[w] = NoGroup,
                        !.onTeardown[w] = 0, !.onModified[w] = {}, !.registered[w] = TRUE]
    IN addWindow(emit(s1, "onCreated", g, 0), g, w)

\* window.teardown(): the window leaves its tab group, then onTeardown is emitted
teardown(s, w) ==
    LET s1 == removeTab(s, w)
    IN onWindowTeardown(s1, w, s1.onTeardown[w])

\* The DesktopWindow object of a closed window is dropped, and its client with it
destroyed(s, w) ==
    [s EXCEPT !.snapGroup[w] = NoGroup, !.prevGroup[w] = NoGroup, !.onTeardown[w] = 0,
              !.onModified[w] = {}, !.grouped[w] = FALSE]

deregister(s, w) == [teardown(s, w) EXCEPT !.registered[w] = FALSE]

\* The engine applies a changed effective 'enabled' to every window at once
RECURSIVE applyEnabled(_, _, _)
applyEnabled(s, es, w) ==
    IF w > NumWindows THEN s
    ELSE LET s1 == IF life[w] # "live" THEN s
                   ELSE IF s.registered[w] /\ ~enabledIn(es, w) THEN deregister(s, w)
                   ELSE IF ~s.registered[w] /\ enabledIn(es, w) THEN register(s, w)
                   ELSE s
         IN applyEnabled(s1, es, w + 1)

Managed(w) == life[w] = "live" /\ registered[w]

\* A disabled or unready window does not participate in snap or tab operations
CanParticipate(w) == Managed(w) /\ ready[w]
Op(name, g, w) == [op |-> name, g |-> g, w |-> w]

\* ------------------------------------------------------------------------
\* Operations
\* ------------------------------------------------------------------------
ModelInit ==
    /\ nextId = 1
    /\ windows = [g \in Groups |-> <<>>]
    /\ entities = [g \in Groups |-> <<>>]
    /\ rootWindow = [g \in Groups |-> <<"null", 0>>]
    /\ stale = [g \in Groups |-> [origin |-> TRUE, halfSize |-> TRUE]]
    /\ snapGroup = [w \in Windows |-> NoGroup]
    /\ prevGroup = [w \in Windows |-> NoGroup]
    /\ life = [w \in Windows |-> "none"]
    /\ ready = [w \in Windows |-> FALSE]
    /\ onTeardown = [w \in Windows |-> 0]
    /\ onModified = [w \in Windows |-> {}]
    /\ grouped = [w \in Windows |-> FALSE]
    /\ sent = <<>>
    /\ emitted = <<>>
    /\ observed = <<>>
    /\ lastOp = Op("init", 0, 0)
    /\ tabGroup = [w \in Windows |-> NoTabGroup]
    /\ tabs = [t \in TabGroupIds |-> <<>>]
    /\ entries = <<>>
    /\ registered = [w \in Windows |-> FALSE]

\* The runtime announces a new window (windows are numbered in creation order)
CreateWindow(w) ==
    /\ life[w] = "none"
    /\ \A x \in 1..(w - 1) : life[x] # "none"
    /\ nextId <= MaxGroups
    /\ life' = [life EXCEPT ![w] = "live"]
    /\ ready' = [ready EXCEPT ![w] = TRUE]
    /\ Apply(IF enabledIn(entries, w) THEN register(State, w) ELSE State)
    /\ lastOp' = Op("addWindow", nextId, w)
    /\ UNCHANGED entries

\* group.addWindow(window), as on a snap commit
AddWindow(g, w) ==
    /\ CanParticipate(w)
    /\ g < nextId
    /\ onTeardown[w] < MaxSlots
    /\ Apply(addWindow(State, g, w))
    /\ lastOp' = Op("addWindow", g, w)
    /\ UNCHANGED <<life, ready, entries>>

\* window.setSnapGroup(group)
SetSnapGroup(w, g) ==
    /\ CanParticipate(w)
    /\ g < nextId
    /\ onTeardown[w] < MaxSlots
    /\ Apply(IF snapGroup[w] # g THEN addWindow(setSnapGroup(State, w, g), g, w) ELSE State)
    /\ lastOp' = Op("addWindow", g, w)
    /\ UNCHANGED <<life, ready, entries>>

\* Undock: the window of a group of two or more moves to a new group
Undock(w) ==
    /\ CanParticipate(w)
    /\ nextId <= MaxGroups
    /\ onTeardown[w] < MaxSlots
    /\ Len(windows[snapGroup[w]]) >= 2
    /\ LET g == nextId
           s1 == emit([State EXCEPT !.nextId = @ + 1], "onCreated", g, 0)
       IN Apply(addWindow(setSnapGroup(s1, w, g), g, w))
    /\ lastOp' = Op("addWindow", nextId, w)
    /\ UNCHANGED <<life, ready, entries>>

\* The OS window closes
Teardown(w) ==
    /\ life[w] = "live"
    /\ life' = [life EXCEPT ![w] = "dead"]
    /\ ready' = [ready EXCEPT ![w] = FALSE]
    /\ Apply(destroyed(IF registered[w] THEN deregister(State, w) ELSE State, w))
    /\ lastOp' = Op("teardown", snapGroup[w], w)
    /\ UNCHANGED entries

\* A runtime command fails: the handle marks the window not ready
MarkNotReady(w) ==
    /\ life[w] = "live"
    /\ ready[w]
    /\ ready' = [ready EXCEPT ![w] = FALSE]
    /\ Apply(State)
    /\ lastOp' = Op("notReady", 0, w)
    /\ UNCHANGED <<life, entries>>

\* Two untabbed windows are tabbed together
TabTogether(t, w1, w2) ==
    /\ CanParticipate(w1) /\ CanParticipate(w2) /\ w1 # w2
    /\ tabs[t] = <<>>
    /\ tabGroup[w1] = NoTabGroup /\ tabGroup[w2] = NoTabGroup
    /\ onTeardown[w2] < MaxSlots
    /\ LET s1 == [State EXCEPT !.tabs[t] = <<w1, w2>>, !.tabGroup[w1] = t, !.tabGroup[w2] = t]
       IN Apply(addWindow(s1, snapGroup[w1], w2))
    /\ lastOp' = Op("addWindow", snapGroup[w1], w2)
    /\ UNCHANGED <<life, ready, entries>>

\* A further window is dropped on a tab group
AddTab(t, w) ==
    /\ CanParticipate(w)
    /\ Len(tabs[t]) >= 2
    /\ tabGroup[w] = NoTabGroup
    /\ onTeardown[w] < MaxSlots
    /\ LET s1 == [State EXCEPT !.tabs[t] = Append(@, w), !.tabGroup[w] = t]
       IN Apply(addWindow(s1, snapGroup[tabs[t][1]], w))
    /\ lastOp' = Op("addWindow", snapGroup[tabs[t][1]], w)
    /\ UNCHANGED <<life, ready, entries>>

\* A tab is removed from its tab group
RemoveTab(w) ==
    /\ CanParticipate(w)
    /\ tabGroup[w] # NoTabGroup
    /\ Apply(removeTab(State, w))
    /\ lastOp' = Op("removeTab", 0, w)
    /\ UNCHANGED <<life, ready, entries>>

\* config.add(scope, {enabled}): the store gains an entry and the engine applies
\* the effective 'enabled' of every window
AddRule(scope, enabled) ==
    LET es == Append(entries, [scope |-> scope, config |-> [enabled |-> enabled]])
        toRegister == {w \in Windows : life[w] = "live" /\ ~registered[w] /\ enabledIn(es, w)}
    IN /\ Len(entries) < MaxEntries
       /\ nextId + Cardinality(toRegister) <= MaxGroups + 1
       /\ entries' = es
       /\ Apply(applyEnabled(State, es, 1))
       /\ lastOp' = Op("addRule", 0, 0)
       /\ UNCHANGED <<life, ready>>

\* The user drags a snap group: the runtime moves its windows together, and
\* each of them raises a MOVE transform
MoveGroup(g) ==
    /\ g < nextId
    /\ windows[g] # <<>>
    /\ Apply(moveWindows(State, windows[g]))
    /\ lastOp' = Op("move", g, 0)
    /\ UNCHANGED <<life, ready, entries>>

\* A window is resized, or moved and resized: it alone raises the transform
ResizeWindow(w, type) ==
    /\ CanParticipate(w)
    /\ type \cap RESIZE # {}
    /\ Apply(raiseTransform(State, onModified[w], w, type))
    /\ lastOp' = Op("resize", snapGroup[w], w)
    /\ UNCHANGED <<life, ready, entries>>

\* A window is hidden, shown, minimized or restored: it raises onModified
ModifyWindow(w) ==
    /\ CanParticipate(w)
    /\ Apply(raiseModified(State, onModified[w], w))
    /\ lastOp' = Op("modify", snapGroup[w], w)
    /\ UNCHANGED <<life, ready, entries>>

\* group.origin or group.halfSize is read
ReadBounds(g, property) ==
    /\ g < nextId
    /\ Apply(readValue(State, g, property))
    /\ lastOp' = Op("read", g, 0)
    /\ UNCHANGED <<life, ready, entries>>

SnapNext ==
    \/ \E w \in Windows : CreateWindow(w)
    \/ \E g \in Groups, w \in Windows : AddWindow(g, w)
    \/ \E g \in Groups, w \in Windows : SetSnapGroup(w, g)
    \/ \E w \in Windows : Undock(w)
    \/ \E w \in Windows : Teardown(w)
    \/ \E w \in Windows : MarkNotReady(w)

\* Snap groups whose windows are moved, resized and modified, and whose bounds are read
TransformNext ==
    \/ \E w \in Windows : CreateWindow(w)
    \/ \E g \in Groups, w \in Windows : AddWindow(g, w)
    \/ \E w \in Windows : Undock(w)
    \/ \E w \in Windows : Teardown(w)
    \/ \E g \in Groups : MoveGroup(g)
    \/ \E w \in Windows, type \in TransformTypes : ResizeWindow(w, type)
    \/ \E w \in Windows : ModifyWindow(w)
    \/ \E g \in Groups, property \in {"origin", "halfSize"} : ReadBounds(g, property)

ConfigNext ==
    \/ \E w \in Windows : CreateWindow(w)
    \/ \E g \in Groups, w \in Windows : AddWindow(g, w)
    \/ \E t \in TabGroupIds, w1 \in Windows, w2 \in Windows : TabTogether(t, w1, w2)
    \/ \E t \in TabGroupIds, w \in Windows : AddTab(t, w)
    \/ \E w \in Windows : RemoveTab(w)
    \/ \E scope \in SourceScopes, enabled \in BOOLEAN : AddRule(scope, enabled)

\* ------------------------------------------------------------------------
\* TabService
\* ------------------------------------------------------------------------
Idle == [pc |-> "idle", group |-> 0, index |-> 0, rest |-> <<>>]

\* The lists of distinct identities passed to createTabGroupWithTabs
TabLists ==
    {list \in UNION {[1..n -> TabIdentifiers] : n \in 1..NumTabs} :
        \A i \in 1..Len(list), j \in 1..Len(list) : i # j => list[i] # list[j]}

\* TabGroup.activeTab of a group that has no active tab (undefined)
NoActiveTab == 0

\* No call of getTabSaveInfo is in flight
SaveIdle == [pc |-> "idle", captured |-> <<>>]

ServiceInit ==
    /\ tabGroups = <<>>
    /\ groupTabs = [id \in GroupIDs |-> <<>>]
    /\ nextGroupID = 1
    /\ calls = [c \in Calls |-> Idle]
    /\ signals = [id \in GroupIDs |-> [added |-> 0, removed |-> 0]]
    /\ groupActive = [id \in GroupIDs |-> NoActiveTab]
    /\ saveCall = SaveIdle

\* _getGroupIndex(ID): 1-based, 0 when absent (JS: -1)
getGroupIndex(groups, ID) == indexOf(groups, ID)

\* getTabGroupByApp(ID): the first tab group that holds the tab, 0 when none
getTabGroupByApp(groups, tabsOf, tabID) ==
    IF \E i \in 1..Len(groups) : includes(tabsOf[groups[i]], tabID)
    THEN groups[CHOOSE i \in 1..Len(groups) :
                    /\ includes(tabsOf[groups[i]], tabID)
                    /\ \A j \in 1..(i - 1) : ~includes(tabsOf[groups[j]], tabID)]
    ELSE 0

\* A tab group as isPointOverTabGroup sees it: activeTab is the identity of the
\* active tab, NoActiveTab when the group has no tab yet (undefined); showing and
\* height are those of the active tab's window, bounds those of the tab strip

\* ZIndexer.getTop(ids): the identities of ids in the order of the z-index
\* stack (topmost first), null (<<>>) when there is none
RECURSIVE getTop(_, _)
getTop(stack, ids) ==
    IF stack = <<>> THEN <<>>
    ELSE IF Head(stack) \in ids THEN <<Head(stack)>> \o getTop(Tail(stack), ids)
    ELSE getTop(Tail(stack), ids)

\* groupTabBounds.filter(...): the indices of the groups that are showing and
\* whose bounds hold the point
insideBounds(groups, x, y) ==
    {i \in 1..Len(groups) :
        /\ groups[i].showing
        /\ x > groups[i].bounds.left
        /\ x < groups[i].bounds.width + groups[i].bounds.left
        /\ y > groups[i].bounds.top
        /\ y < groups[i].bounds.top + (groups[i].bounds.height + groups[i].height)}

HitNull == [type |-> "null"]
HitGroup(ID) == [type |-> "TabGroup", ID |-> ID]
HitTypeError == [type |-> "TypeError"]

\* isPointOverTabGroup(x, y): reading group.activeTab.window of a group without
\* an active tab throws, and the call is rejected with that TypeError
isPointOverTabGroup(groups, stack, x, y) ==
    IF \E i \in 1..Len(groups) : groups[i].activeTab = NoActiveTab
    THEN HitTypeError
    ELSE LET result == insideBounds(groups, x, y)
             topOrdered == getTop(stack, {groups[i].activeTab : i \in result})
         IN IF topOrdered # <<>>
               /\ \E i \in result : groups[i].activeTab = topOrdered[1]
            THEN HitGroup(groups[CHOOSE i \in result :
                                    /\ groups[i].activeTab = topOrdered[1]
                                    /\ \A j \in result : groups[j].activeTab = topOrdered[1] => i <= j].ID)
            ELSE HitNull

\* group.addTab({tabID}): the tab is appended, unless it is a tab already
tabGroupAddTab(groups, tabsOf, id, tabID) ==
    IF getTabGroupByApp(groups, tabsOf, tabID) # 0 THEN tabsOf
    ELSE [tabsOf EXCEPT ![id] = Append(@, tabID)]

\* group.switchTab(ID) that leaves the active tab as it is
tabGroupSwitchTab_none(tabsOf, activeOf, id, tabID) == activeOf

\* group.switchTab(ID): a tab of the group becomes its active tab
tabGroupSwitchTab(tabsOf, activeOf, id, tabID) ==
    IF includes(tabsOf[id], tabID) THEN [activeOf EXCEPT ![id] = tabID] ELSE activeOf

\* createTabGroupWithTabs(tabs), up to its first await: addTabGroup({}) constructs
\* the group, pushes it and emits tabGroupAdded
CreateTabGroupWithTabs(c, list) ==
    /\ calls[c].pc = "idle"
    /\ Len(list) # 0
    /\ nextGroupID <= MaxGroupIDs
    /\ tabGroups' = Append(tabGroups, nextGroupID)
    /\ signals' = [signals EXCEPT ![nextGroupID].added = @ + 1]
    /\ nextGroupID' = nextGroupID + 1
    /\ calls' = [calls EXCEPT ![c] = [pc |-> "addTab", group |-> nextGroupID, index |-> 0, rest |-> list]]
    /\ UNCHANGED <<groupTabs, groupActive, saveCall>>
    /\ UNCHANGED exceptService

\* createTabGroupWithTabs resumes: one 'await group.addTab({tabID: tab})' of its
\* loop, which shows the added tab and hides the other tabs; after the last one,
\* realignApps() and return
CreateAddTab(c) ==
    /\ calls[c].pc = "addTab"
    /\ groupTabs' = tabGroupAddTab(tabGroups, groupTabs, calls[c].group, Head(calls[c].rest))
    /\ groupActive' = tabGroupSwitchTab(groupTabs', groupActive, calls[c].group, Head(calls[c].rest))
    /\ calls' = [calls EXCEPT ![c] = IF Len(calls[c].rest) = 1 THEN Idle
                                     ELSE [@ EXCEPT !.rest = Tail(calls[c].rest)]]
    /\ UNCHANGED <<tabGroups, nextGroupID, signals, saveCall>>
    /\ UNCHANGED exceptService

\* removeTabGroup(ID), up to its first await: the index of the group is looked up;
\* with an ID that no tab group has, nothing is done
RemoveTabGroup(c, ID) ==
    /\ calls[c].pc = "idle"
    /\ LET groupIndex == getGroupIndex(tabGroups, ID)
       IN calls' = IF groupIndex # 0
                   THEN [calls EXCEPT ![c] = [pc |-> "removeAllTabs", group |-> ID,
                                              index |-> groupIndex, rest |-> <<>>]]
                   ELSE calls
    /\ UNCHANGED <<tabGroups, groupTabs, nextGroupID, signals, groupActive, saveCall>>
    /\ UNCHANGED exceptService

\* removeTabGroup resumes after 'await group.removeAllTabs(closeApps)'
RemoveAllTabsDone(c) ==
    /\ calls[c].pc = "removeAllTabs"
    /\ groupTabs' = [groupTabs EXCEPT ![calls[c].group] = <<>>]
    /\ groupActive' = [groupActive EXCEPT ![calls[c].group] = NoActiveTab]
    /\ calls' = [calls EXCEPT ![c].pc = "close"]
    /\ UNCHANGED <<tabGroups, nextGroupID, signals, saveCall>>
    /\ UNCHANGED exceptService

\* removeTabGroup resumes after 'await group.window.close(true)': the group at the
\* index found before the awaits is spliced out and tabGroupRemoved is emitted
RemoveCloseDone(c) ==
    /\ calls[c].pc = "close"
    /\ tabGroups' = splice(tabGroups, calls[c].index)
    /\ signals' = [signals EXCEPT ![calls[c].group].removed = @ + 1]
    /\ calls' = [calls EXCEPT ![c] = Idle]
    /\ UNCHANGED <<groupTabs, nextGroupID, groupActive, saveCall>>
    /\ UNCHANGED exceptService

\* group.removeTab(tabID, false, false, false, false): the tab leaves the list;
\* the applications, the active tab and the group window are left alone
tabGroupRemoveTab(tabsOf, id, tabID) ==
    IF includes(tabsOf[id], tabID)
    THEN [tabsOf EXCEPT ![id] = splice(@, indexOf(@, tabID))]
    ELSE tabsOf

\* group.removeTab(ID): the active tab after the removal of a tab; removing
\* the active tab selects the next in order, the previous one if it was the last
tabGroupActiveAfterRemove(tabsOf, activeOf, id, tabID) ==
    LET list == tabsOf[id]
        index == indexOf(list, tabID)
    IN IF index = 0 \/ activeOf[id] # tabID THEN activeOf
       ELSE IF index < Len(list) THEN [activeOf EXCEPT ![id] = list[index + 1]]
       ELSE IF index > 1 THEN [activeOf EXCEPT ![id] = list[index - 1]]
       ELSE [activeOf EXCEPT ![id] = NoActiveTab]

\* The client's switchTab(ID, tabID), while other calls are at their awaits
SwitchTab(ID, tabID) ==
    /\ includes(tabGroups, ID)
    /\ groupActive' = tabGroupSwitchTab(groupTabs, groupActive, ID, tabID)
    /\ UNCHANGED <<tabGroups, groupTabs, nextGroupID, calls, signals, saveCall>>
    /\ UNCHANGED exceptService

\* removeTab(tabID) of a tab group that keeps two tabs or more, while other
\* calls are at their awaits; without a group of the tab, nothing is done
RemoveTabOfGroup(tabID) ==
    LET group == getTabGroupByApp(tabGroups, groupTabs, tabID)
    IN /\ group # 0 => Len(groupTabs[group]) > 2
       /\ groupTabs' = IF group = 0 THEN groupTabs ELSE tabGroupRemoveTab(groupTabs, group, tabID)
       /\ groupActive' = IF group = 0 THEN groupActive
                         ELSE tabGroupActiveAfterRemove(groupTabs, groupActive, group, tabID)
       /\ UNCHANGED <<tabGroups, nextGroupID, calls, signals, saveCall>>
       /\ UNCHANGED exceptService

\* getTabSaveInfo(), up to the awaits of its callbacks: for each tab group of the
\* service, the identities of its tabs are read, and the bounds of its window and
\* of its active tab's window are requested; reading group.activeTab.window of a
\* group without an active tab throws, and the call is rejected with that TypeError.
\* One call is in flight at a time: the next is made once the last has settled
GetTabSaveInfoCalled ==
    /\ saveCall.pc # "await"
    /\ saveCall' =
          IF \E i \in 1..Len(tabGroups) : groupActive[tabGroups[i]] = NoActiveTab
          THEN [pc |-> "threw", captured |-> <<>>]
          ELSE [pc |-> "await",
                captured |-> [i \in 1..Len(tabGroups) |->
                                 [ID |-> tabGroups[i], tabs |-> groupTabs[tabGroups[i]],
                                  active |-> NoActiveTab, resumed |-> FALSE]]]
    /\ UNCHANGED <<tabGroups, groupTabs, nextGroupID, calls, signals, groupActive>>
    /\ UNCHANGED exceptService

\* The callback of the i-th group resumes once both bounds have arrived: it
\* reads group.activeTab.ID and returns {tabs, groupInfo}; with all callbacks
\* returned, the blobs are the result of the call
GetTabSaveInfoResumed(i) ==
    /\ saveCall.pc = "await"
    /\ i \in 1..Len(saveCall.captured)
    /\ ~saveCall.captured[i].resumed
    /\ LET active == groupActive[saveCall.captured[i].ID]
           captured == [saveCall.captured EXCEPT ![i].active = active, ![i].resumed = TRUE]
       IN saveCall' =
             IF active = NoActiveTab THEN [pc |-> "threw", captured |-> <<>>]
             ELSE [pc |-> IF \A j \in 1..Len(captured) : captured[j].resumed
                          THEN "returned" ELSE "await",
                   captured |-> captured]
    /\ UNCHANGED <<tabGroups, groupTabs, nextGroupID, calls, signals, groupActive>>
    /\ UNCHANGED exceptService

\* getTabSaveInfo, with tab groups being created, tabs switched and tabs removed
\* while it is at its awaits
SaveInfoNext ==
    \/ \E c \in Calls, list \in TabLists : CreateTabGroupWithTabs(c, list)
    \/ \E c \in Calls : CreateAddTab(c)
    \/ \E ID \in GroupIDs, tabID \in TabIdentifiers : SwitchTab(ID, tabID)
    \/ \E tabID \in TabIdentifiers : RemoveTabOfGroup(tabID)
    \/ GetTabSaveInfoCalled
    \/ \E i \in 1..MaxGroupIDs : GetTabSaveInfoResumed(i)

ServiceNext ==
    \/ \E c \in Calls, list \in TabLists : CreateTabGroupWithTabs(c, list)
    \/ \E c \in Calls : CreateAddTab(c)
    \/ \E c \in Calls, ID \in GroupIDs : RemoveTabGroup(c, ID)
    \/ \E c \in Calls : RemoveAllTabsDone(c)
    \/ \E c \in Calls : RemoveCloseDone(c)

\* ------------------------------------------------------------------------
\* Save and restore (SaveAndRestoreAPI.ts)
\* ------------------------------------------------------------------------
SaveTypeError == [type |-> "TypeError"]
SaveBlobs(blobs) == [type |-> "TabBlob[]", blobs |-> blobs]

\* The blob of one tab group: the identities of its tabs in order, and the
\* url, active tab and dimensions of the group
groupInfoOf(group) ==
    [tabs |-> group.tabs,
     groupInfo |-> [url |-> group.url,
                    active |-> group.activeTab,
                    dimensions |-> [x |-> group.bounds.left, y |-> group.bounds.top,
                                    width |-> group.bounds.width,
                                    tabGroupHeight |-> group.bounds.height,
                                    appHeight |-> group.appHeight]]]

\* getTabSaveInfo(): one blob for each tab group of the service; reading
\* group.activeTab.window of a group without an active tab throws, and the
\* call is rejected with that TypeError
getTabSaveInfo(groups) ==
    IF \E i \in 1..Len(groups) : groups[i].activeTab = NoActiveTab
    THEN SaveTypeError
    ELSE SaveBlobs([i \in 1..Len(groups) |-> groupInfoOf(groups[i])])

\* The listed windows that exist, in the listed order
RECURSIVE surviving(_, _)
surviving(list, present) ==
    IF list = <<>> THEN <<>>
    ELSE IF Head(list) \in present THEN <<Head(list)>> \o surviving(Tail(list), present)
    ELSE surviving(Tail(list), present)

\* The tab group made from one blob: the tabs in the listed order at the
\* blob's dimensions, with the first tab active
groupOfBlob_firstActive(blob, list) ==
    [tabs |-> list,
     activeTab |-> list[1],
     url |-> blob.groupInfo.url,
     bounds |-> [left |-> blob.groupInfo.dimensions.x, top |-> blob.groupInfo.dimensions.y,
                 width |-> blob.groupInfo.dimensions.width,
                 height |-> blob.groupInfo.dimensions.tabGroupHeight],
     appHeight |-> blob.groupInfo.dimensions.appHeight]

\* The tab group made from one blob: the tabs in the listed order at the
\* blob's dimensions, with the blob's active tab activated (the first tab
\* stays active when that window is missing)
groupOfBlob(blob, list) ==
    [tabs |-> list,
     activeTab |-> IF includes(list, blob.groupInfo.active) THEN blob.groupInfo.active ELSE list[1],
     url |-> blob.groupInfo.url,
     bounds |-> [left |-> blob.groupInfo.dimensions.x, top |-> blob.groupInfo.dimensions.y,
                 width |-> blob.groupInfo.dimensions.width,
                 height |-> blob.groupInfo.dimensions.tabGroupHeight],
     appHeight |-> blob.groupInfo.dimensions.appHeight]

\* createTabGroupsFromTabBlob(tabBlob): missing windows are skipped, and no
\* tab group is made of fewer than two surviving tabs
RECURSIVE createTabGroupsFromTabBlob(_, _)
createTabGroupsFromTabBlob(tabBlob, present) ==
    IF tabBlob = <<>> THEN <<>>
    ELSE LET list == surviving(Head(tabBlob).tabs, present)
             rest == createTabGroupsFromTabBlob(Tail(tabBlob), present)
         IN IF Len(list) < 2 THEN rest
            ELSE <<groupOfBlob(Head(tabBlob), list)>> \o rest

\* group.addTab(tab, false, true, index) that ignores the index
tabGroupAddTabAt_push(groups, tabsOf, id, tabID, index) ==
    IF getTabGroupByApp(groups, tabsOf, tabID) # 0 THEN tabsOf
    ELSE [tabsOf EXCEPT ![id] = Append(@, tabID)]

\* group.addTab(tab, false, true, index): the tab is put at the (0-based)
\* index, unless it is a tab already
tabGroupAddTabAt(groups, tabsOf, id, tabID, index) ==
    IF getTabGroupByApp(groups, tabsOf, tabID) # 0 THEN tabsOf
    ELSE [tabsOf EXCEPT ![id] = SubSeq(@, 1, index) \o <<tabID>> \o SubSeq(@, index + 1, Len(@))]

\* swapTab(add, swapWith): the tabs and the active tabs of the groups after the
\* call, and the tabs whose windows the call has hidden
swapTab(groups, tabsOf, activeOf, addID, swapWith) ==
    LET group == getTabGroupByApp(groups, tabsOf, swapWith)
    IN IF group = 0 THEN [groupTabs |-> tabsOf, active |-> activeOf, hidden |-> {}]
       ELSE LET tabIndex == indexOf(tabsOf[group], swapWith) - 1
                added == tabGroupAddTabAt(groups, tabsOf, group, addID, tabIndex)
                removed == tabGroupRemoveTab(added, group, swapWith)
            IN IF activeOf[group] # NoActiveTab /\ activeOf[group] = swapWith
               THEN [groupTabs |-> removed,
                     active |-> tabGroupSwitchTab(removed, activeOf, group, addID),
                     hidden |-> {}]
               ELSE [groupTabs |-> removed, active |-> activeOf, hidden |-> {addID}]

\* restoreTabs(tabBlob), with a running tab service
restoreTabs(tabBlob, present) == createTabGroupsFromTabBlob(tabBlob, present)

\* ------------------------------------------------------------------------
\* TabManager (tab strip UI)
\* ------------------------------------------------------------------------
NoTab == [id |-> 0, serial |-> 0]

ManagerInit ==
    /\ tmTabs = <<>>
    /\ tmActiveTab = NoTab
    /\ tmNextTab = 1
    /\ tmActive = {}

ManagerState == [tabs |-> tmTabs, activeTab |-> tmActiveTab, nextTab |-> tmNextTab, active |-> tmActive]

\* _getTabIndex(tabID): 1-based, 0 when absent (JS: -1)
getTabIndex(m, tabID) ==
    IF \E i \in 1..Len(m.tabs) : m.tabs[i].id = tabID
    THEN CHOOSE i \in 1..Len(m.tabs) : m.tabs[i].id = tabID /\ \A j \in 1..(i - 1) : m.tabs[j].id # tabID
    ELSE 0

\* getTab(tabID): NoTab when absent (JS: undefined)
getTab(m, tabID) == IF getTabIndex(m, tabID) # 0 THEN m.tabs[getTabIndex(m, tabID)] ELSE NoTab

addTab(m, tabID) ==
    IF getTabIndex(m, tabID) = 0
    THEN [m EXCEPT !.tabs = Append(@, [id |-> tabID, serial |-> m.nextTab]), !.nextTab = @ + 1]
    ELSE m

unsetActiveTab(m) ==
    IF m.activeTab = NoTab THEN m
    ELSE [m EXCEPT !.active = @ \ {m.activeTab}]

\* setActiveTab that leaves the previous active tab marked active
setActiveTabTo_noUnset(m, tabID) ==
    LET tab == getTab(m, tabID)
    IN IF tab # NoTab
       THEN [m EXCEPT !.active = @ \cup {tab}, !.activeTab = tab]
       ELSE m

\* setActiveTab(tabID) with a tab identifier
setActiveTabTo(m, tabID) ==
    LET tab == getTab(m, tabID)
    IN IF tab # NoTab
       THEN [unsetActiveTab(m) EXCEPT !.active = @ \cup {tab}, !.activeTab = tab]
       ELSE m

\* setActiveTab(tabID = null): 0 stands for null; with null, or with an identifier
\* that no tab has, the first tab is chosen if there is one
setActiveTab(m, tabID) ==
    IF tabID # 0 /\ getTab(m, tabID) # NoTab
    THEN setActiveTabTo(m, tabID)
    ELSE IF Len(m.tabs) > 0 THEN setActiveTabTo(m, m.tabs[1].id)
    ELSE m

tmRemoveTab(m, tabID) ==
    LET index == getTabIndex(m, tabID)
        tab == getTab(m, tabID)
    IN IF tab # NoTab /\ index # 0
       THEN LET m1 == [m EXCEPT !.tabs = splice(@, index)]
            IN IF m1.activeTab = tab THEN setActiveTab(unsetActiveTab(m1), 0) ELSE m1
       ELSE m

ManagerApply(m) ==
    /\ tmTabs' = m.tabs
    /\ tmActiveTab' = m.activeTab
    /\ tmNextTab' = m.nextTab
    /\ tmActive' = m.active
    /\ UNCHANGED exceptManager

TMAddTab(tabID) ==
    /\ tmNextTab <= MaxTabObjects
    /\ ManagerApply(addTab(ManagerState, tabID))

TMRemoveTab(tabID) ==
    /\ tabID \in TabIdentifiers
    /\ ManagerApply(tmRemoveTab(ManagerState, tabID))

\* setActiveTab(tabID), where 0 stands for a call without an identifier
TMSetActiveTab(tabID) ==
    /\ tabID \in TabIdentifiers \cup {0}
    /\ ManagerApply(setActiveTab(ManagerState, tabID))

TMUnsetActiveTab ==
    /\ tmActiveTab # NoTab
    /\ ManagerApply(unsetActiveTab(ManagerState))

ManagerNext ==
    \/ \E tabID \in TabIdentifiers : TMAddTab(tabID)
    \/ \E tabID \in TabIdentifiers : TMRemoveTab(tabID)
    \/ \E tabID \in TabIdentifiers \cup {0} : TMSetActiveTab(tabID)
    \/ TMUnsetActiveTab

\* ------------------------------------------------------------------------
\* SnapTabSet (a tab group as seen by the snapping service)
\* ------------------------------------------------------------------------
\* The SnapWindow objects: several may exist for one window identity
SnapWindows == [id : TabIdentifiers, obj : 1..MaxSnapWindows]

\* this.tabs.findIndex(tabWindow => tabWindow.getId() === id): 1-based, 0 when absent
findIndex(list, id) ==
    IF \E i \in 1..Len(list) : list[i].id = id
    THEN CHOOSE i \in 1..Len(list) : list[i].id = id /\ \A j \in 1..(i - 1) : list[j].id # id
    ELSE 0

\* The identity of tabGroup.activeTab
ActiveTab == 1

\* The states that the windows of the tabs and of the tab strip take
TabStates ==
    {[center |-> [x |-> 0, y |-> 4], halfSize |-> [x |-> 2, y |-> 2]],
     [center |-> [x |-> 2, y |-> 4], halfSize |-> [x |-> 2, y |-> 2]]}
StripStates ==
    {[center |-> [x |-> 0, y |-> 1], halfSize |-> [x |-> 2, y |-> 1]],
     [center |-> [x |-> 2, y |-> 1], halfSize |-> [x |-> 2, y |-> 1]]}

\* The state the constructor passes to SnapWindow, and its shallow copy
DummyState == [center |-> [x |-> 0, y |-> 0], halfSize |-> [x |-> 0, y |-> 0]]

TabSetInit ==
    /\ tsTabs = <<>>
    /\ tsListeners = [window \in SnapWindows |-> 0]
    /\ tsTabSet = [window \in SnapWindows |-> FALSE]
    /\ tsState = DummyState
    /\ tsPseudoState = DummyState
    /\ tsAliased = [center |-> TRUE, halfSize |-> TRUE]
    /\ tsInitialised = FALSE
    /\ tsActiveState = [center |-> [x |-> 0, y |-> 4], halfSize |-> [x |-> 2, y |-> 2]]
    /\ tsStripState = [center |-> [x |-> 0, y |-> 1], halfSize |-> [x |-> 2, y |-> 1]]
    /\ tsRan = FALSE

TabSetState ==
    [tabs |-> tsTabs, listeners |-> tsListeners, tabSet |-> tsTabSet,
     state |-> tsState, pseudoState |-> tsPseudoState, aliased |-> tsAliased,
     initialised |-> tsInitialised, activeState |-> tsActiveState, stripState |-> tsStripState,
     ran |-> FALSE]

\* getState()
getState(ts) == IF ts.initialised THEN ts.pseudoState ELSE ts.state

\* An assignment to the members of pseudoState.center: it is seen through
\* state.center as long as the two are one object
assignCenter(ts, point) ==
    [ts EXCEPT !.pseudoState.center = point,
               !.state.center = IF ts.aliased.center THEN point ELSE @]

assignHalfSize(ts, point) ==
    [ts EXCEPT !.pseudoState.halfSize = point,
               !.state.halfSize = IF ts.aliased.halfSize THEN point ELSE @]

setBounds(ts) ==
    LET run == [ts EXCEPT !.ran = TRUE]
    IN IF findIndex(run.tabs, ActiveTab) # 0
       THEN LET activeState == run.activeState
                ts1 == assignCenter(run, [x |-> activeState.center.x,
                                          y |-> activeState.center.y - run.state.halfSize.y])
            IN assignHalfSize(ts1, [x |-> activeState.halfSize.x,
                                    y |-> activeState.halfSize.y + ts1.state.halfSize.y])
       ELSE assignHalfSize(assignCenter(run, run.state.center), run.state.halfSize)

\* The callback of the constructor's setTimeout: Object.apply(pseudoState,
\* tabStripState) calls Object with no arguments and assigns nothing
initialise(ts) ==
    [setBounds(ts) EXCEPT !.initialised = TRUE]

\* onWindowTransformed, once for each of the n registrations of the listener
RECURSIVE onWindowTransformed(_, _)
onWindowTransformed(ts, n) ==
    IF n = 0 THEN ts ELSE onWindowTransformed(setBounds(ts), n - 1)

\* addTab that does not look for the tab among the tabs it holds
tsAddTab_noLookup(ts, tab, window) ==
    [ts EXCEPT !.tabs = Append(@, window),
               !.listeners[window] = @ + 1,
               !.tabSet[window] = TRUE]

tsAddTab(ts, tab, window) ==
    LET index == findIndex(ts.tabs, tab)
    IN IF index = 0
       THEN [ts EXCEPT !.tabs = Append(@, window),
                       !.listeners[window] = @ + 1,
                       !.tabSet[window] = TRUE]
       ELSE ts

tsRemoveTab(ts, tab, window) ==
    LET index == findIndex(ts.tabs, tab)
    IN IF index >= 1
       THEN [ts EXCEPT !.tabs = splice(@, index),
                       !.listeners[window] = IF @ > 0 THEN @ - 1 ELSE 0,
                       !.tabSet[window] = FALSE]
       ELSE ts

TabSetApply(ts) ==
    /\ tsTabs' = ts.tabs
    /\ tsListeners' = ts.listeners
    /\ tsTabSet' = ts.tabSet
    /\ tsState' = ts.state
    /\ tsPseudoState' = ts.pseudoState
    /\ tsAliased' = ts.aliased
    /\ tsInitialised' = ts.initialised
    /\ tsActiveState' = ts.activeState
    /\ tsStripState' = ts.stripState
    /\ tsRan' = ts.ran
    /\ UNCHANGED exceptTabSet

\* addTab(tab, window): window is a SnapWindow of the tab's identity
TSAddTab(window) ==
    /\ window \in SnapWindows
    /\ tsListeners[window] < MaxListeners
    /\ TabSetApply(tsAddTab(TabSetState, window.id, window))

TSRemoveTab(window) ==
    /\ window \in SnapWindows
    /\ TabSetApply(tsRemoveTab(TabSetState, window.id, window))

\* The timeout set by the constructor fires
TSInitialise ==
    /\ ~tsInitialised
    /\ TabSetApply(initialise(TabSetState))

\* The window of a tab is moved or resized: its SnapWindow raises onTransform
TSTabTransformed(window, newState) ==
    /\ window \in SnapWindows
    /\ tsState.halfSize.y <= MaxExtent
    /\ LET ts == IF window.id = ActiveTab
                 THEN [TabSetState EXCEPT !.activeState = newState] ELSE TabSetState
       IN TabSetApply(onWindowTransformed(ts, ts.listeners[window]))

\* The tab strip's window is moved or resized: SnapWindow stores the new center
\* and halfSize in its state and raises onTransform
TSStripTransformed(newState) ==
    /\ tsState.halfSize.y <= MaxExtent
    /\ LET ts == [TabSetState EXCEPT !.stripState = newState,
                                     !.state = newState,
                                     !.aliased = [center |-> FALSE, halfSize |-> FALSE]]
       IN TabSetApply(onWindowTransformed(ts, 1))

\* The first SnapWindow of each identity
FirstSnapWindows == {window \in SnapWindows : window.obj = 1}

\* The tab set with its pseudo-window: one SnapWindow for each tab
PseudoStateNext ==
    \/ \E window \in FirstSnapWindows : TSAddTab(window)
    \/ \E window \in FirstSnapWindows : TSRemoveTab(window)
    \/ TSInitialise
    \/ \E window \in FirstSnapWindows, newState \in TabStates : TSTabTransformed(window, newState)
    \/ \E newState \in StripStates : TSStripTransformed(newState)

TabSetNext ==
    \/ \E window \in SnapWindows : TSAddTab(window)
    \/ \E window \in SnapWindows : TSRemoveTab(window)


\* ------------------------------------------------------------------------
\* SnapPreview
\* ------------------------------------------------------------------------
INITIAL_FREE_WINDOWS == 3

PREVIEW_SUCCESS == "#3D4059"
PREVIEW_FAILURE == "repeating-linear-gradient"

\* The snap groups that targets belong to, and the windows they may hold
PreviewGroups == 1..MaxPreviewGroups
PreviewedWindows == 1..MaxPreviewWindows
WindowLists ==
    {list \in UNION {[1..n -> PreviewedWindows] : n \in 1..MaxPreviewWindows} :
        \A i \in 1..Len(list), j \in 1..Len(list) : i # j => list[i] # list[j]}

\* target.activeWindow.getGroup(), that group's windows, and target.validity
SnapTargets == [group : PreviewGroups, members : WindowLists, validity : {"VALID", "FAIL"}]

\* Valid targets whose groups hold more windows than the pool has to begin with
PoolWindowLists ==
    {list \in UNION {[1..n -> 1..MaxPoolWindows] : n \in 1..MaxPoolWindows} :
        \A i \in 1..Len(list), j \in 1..Len(list) : i # j => list[i] # list[j]}
PoolTargets == [group : PreviewGroups, members : PoolWindowLists, validity : {"VALID"}]

\* createWindow(snapWindow): a new PreviewWindow object, told from the others
\* by its serial number; nativeWindow is null, and the window has no background,
\* until the window's creation callback has run (snapWindow 0 = null)
createWindow(serial, snapWindow) ==
    [serial |-> serial, snapWindow |-> snapWindow, nativeWindow |-> FALSE, background |-> "none"]

PreviewInit ==
    /\ pvActive = <<>>
    /\ pvFree = [i \in 1..INITIAL_FREE_WINDOWS |-> createWindow(i, 0)]
    /\ pvCreated = INITIAL_FREE_WINDOWS
    /\ pvActiveGroup = 0
    /\ pvIsValid = TRUE
    /\ pvCall = [op |-> "none"]

PreviewState ==
    [active |-> pvActive, free |-> pvFree, activeGroup |-> pvActiveGroup, isValid |-> pvIsValid,
     created |-> pvCreated]

\* getOrCreateWindow that leaves a reused preview bound to no window
getOrCreateWindow_unbound(pv, snapWindow) ==
    IF pv.free # <<>>
    THEN [pv EXCEPT !.free = SubSeq(@, 1, Len(@) - 1),
                    !.active = Append(@, pv.free[Len(pv.free)])]
    ELSE [pv EXCEPT !.active = Append(@, createWindow(pv.created + 1, snapWindow)),
                    !.created = @ + 1]

getOrCreateWindow(pv, snapWindow) ==
    IF pv.free # <<>>
    THEN [pv EXCEPT !.free = SubSeq(@, 1, Len(@) - 1),
                    !.active = Append(@, [pv.free[Len(pv.free)] EXCEPT !.snapWindow = snapWindow])]
    ELSE [pv EXCEPT !.active = Append(@, createWindow(pv.created + 1, snapWindow)),
                    !.created = @ + 1]

\* recycleWindow that closes the preview instead of keeping it in the pool
recycleWindow_closed(pv, preview) ==
    LET index == indexOf(pv.active, preview)
    IN IF index # 0 THEN [pv EXCEPT !.active = splice(@, index)] ELSE pv

recycleWindow(pv, preview) ==
    LET index == indexOf(pv.active, preview)
    IN IF index # 0
       THEN [pv EXCEPT !.active = splice(@, index),
                       !.free = Append(@, [preview EXCEPT !.snapWindow = 0])]
       ELSE pv

\* previews.forEach(preview => this.recycleWindow(preview))
RECURSIVE recycleAll(_, _)
recycleAll(pv, previews) ==
    IF previews = <<>> THEN pv
    ELSE recycleAll(recycleWindow(pv, Head(previews)), Tail(previews))

hide(pv) == [recycleAll(pv, pv.active) EXCEPT !.activeGroup = 0]

\* activeGroup.windows.forEach(...): a preview window for each window of the
\* group; unused holds the previews that no window of the group has claimed
RECURSIVE ensurePreviews(_, _, _)
ensurePreviews(pv, unused, members) ==
    IF members = <<>> THEN [pv |-> pv, unused |-> unused]
    ELSE LET index == IF \E i \in 1..Len(unused) : unused[i].snapWindow = Head(members)
                      THEN CHOOSE i \in 1..Len(unused) :
                               /\ unused[i].snapWindow = Head(members)
                               /\ \A j \in 1..(i - 1) : unused[j].snapWindow # Head(members)
                      ELSE 0
         IN IF index = 0
            THEN ensurePreviews(getOrCreateWindow(pv, Head(members)), unused, Tail(members))
            ELSE ensurePreviews(pv, splice(unused, index), Tail(members))

\* this.pool.active.forEach(preview => preview.nativeWindow!.document.body.style.background = ...):
\* the previews are coloured in order; at a preview whose nativeWindow is
\* still null the assignment throws and the rest are left as they are
RECURSIVE setBackground(_, _)
setBackground(previews, colour) ==
    IF previews = <<>> THEN [previews |-> <<>>, threw |-> FALSE]
    ELSE IF ~Head(previews).nativeWindow THEN [previews |-> previews, threw |-> TRUE]
    ELSE LET rest == setBackground(Tail(previews), colour)
         IN [previews |-> <<[Head(previews) EXCEPT !.background = colour]>> \o rest.previews,
             threw |-> rest.threw]

\* show(target): the state after the call, and whether the call threw
show(pv, target) ==
    LET pv1 == IF pv.activeGroup # target.group THEN hide(pv) ELSE pv
        ensured == ensurePreviews(pv1, pv1.active, target.members)
        pv2 == recycleAll(ensured.pv, ensured.unused)
        isValid == target.validity = "VALID"
    IN IF pv2.isValid # isValid
       THEN LET coloured == setBackground(pv2.active, IF isValid THEN PREVIEW_SUCCESS ELSE PREVIEW_FAILURE)
            IN [pv |-> [pv2 EXCEPT !.isValid = isValid, !.active = coloured.previews,
                                   !.activeGroup = IF coloured.threw THEN @ ELSE target.group],
                threw |-> coloured.threw]
       ELSE [pv |-> [pv2 EXCEPT !.activeGroup = target.group], threw |-> FALSE]

PreviewApply(pv) ==
    /\ pvActive' = pv.active
    /\ pvFree' = pv.free
    /\ pvActiveGroup' = pv.activeGroup
    /\ pvIsValid' = pv.isValid
    /\ pvCreated' = pv.created
    /\ UNCHANGED exceptPreview

Show(target) ==
    /\ LET result == show(PreviewState, target)
       IN /\ PreviewApply(result.pv)
          /\ pvCall' = [op |-> "show", validity |-> target.validity, members |-> Range(target.members),
                         threw |-> result.threw]

Hide ==
    /\ PreviewApply(hide(PreviewState))
    /\ pvCall' = [op |-> "hide"]

\* The creation callback of a preview window of the free pool: nativeWindow is
\* set, and the background is PREVIEW_SUCCESS
FreeWindowCreated(i) ==
    /\ i \in 1..Len(pvFree)
    /\ ~pvFree[i].nativeWindow
    /\ PreviewApply([PreviewState EXCEPT !.free[i].nativeWindow = TRUE,
                                         !.free[i].background = PREVIEW_SUCCESS])
    /\ pvCall' = [op |-> "created"]

\* The creation callback of a preview window that is shown by now
ActiveWindowCreated(i) ==
    /\ i \in 1..Len(pvActive)
    /\ ~pvActive[i].nativeWindow
    /\ PreviewApply([PreviewState EXCEPT !.active[i].nativeWindow = TRUE,
                                         !.active[i].background = PREVIEW_SUCCESS])
    /\ pvCall' = [op |-> "created"]

PreviewNext ==
    \/ \E target \in SnapTargets : Show(target)
    \/ Hide
    \/ \E i \in 1..(INITIAL_FREE_WINDOWS + MaxPreviewWindows) : FreeWindowCreated(i)
    \/ \E i \in 1..(INITIAL_FREE_WINDOWS + MaxPreviewWindows) : ActiveWindowCreated(i)

\* The pool once the creation callbacks of its initial windows have run
PoolInit ==
    /\ pvActive = <<>>
    /\ pvFree = [i \in 1..INITIAL_FREE_WINDOWS |->
                    [createWindow(i, 0) EXCEPT !.nativeWindow = TRUE, !.background = PREVIEW_SUCCESS]]
    /\ pvCreated = INITIAL_FREE_WINDOWS
    /\ pvActiveGroup = 0
    /\ pvIsValid = TRUE
    /\ pvCall = [op |-> "none"]

PoolNext ==
    \/ \E target \in PoolTargets : Show(target)
    \/ Hide
    \/ \E i \in 1..(INITIAL_FREE_WINDOWS + MaxPoolWindows) : FreeWindowCreated(i)
    \/ \E i \in 1..(INITIAL_FREE_WINDOWS + MaxPoolWindows) : ActiveWindowCreated(i)

\* ------------------------------------------------------------------------
\* MouseTracker
\* ------------------------------------------------------------------------
Tracked == 1..MaxTracked

MouseInit ==
    /\ mtWindow = 0
    /\ mtMouseOffset = 0
    /\ mtOnTransform = [w \in Tracked |-> FALSE]
    /\ mtOnCommit = [w \in Tracked |-> FALSE]
    /\ mtPending = <<>>
    /\ mtLife = [w \in Tracked |-> "none"]
    /\ mtDrag = 0
    /\ mtRaced = FALSE
    /\ mtInOrder = TRUE

\* The tracker's fields and its registrations on the windows' signals
MouseState ==
    [window |-> mtWindow, mouseOffset |-> mtMouseOffset, onTransform |-> mtOnTransform,
     onCommit |-> mtOnCommit, pending |-> mtPending]

onDesktopWindowCreated(mt, w) == [mt EXCEPT !.onTransform[w] = TRUE, !.onCommit[w] = TRUE]

onDesktopWindowDestroyed(mt, w) == [mt EXCEPT !.onTransform[w] = FALSE, !.onCommit[w] = FALSE]

\* start(window, type), up to its await: the mouse position is requested
start(mt, w) == [mt EXCEPT !.pending = Append(@, w)]

\* start resumes with the mouse position: window and mouseOffset are set
startResumed(mt) ==
    [mt EXCEPT !.window = Head(mt.pending), !.mouseOffset = Head(mt.pending),
               !.pending = Tail(mt.pending)]

\* end(window, type): 'end' is removed from the onCommit of the tracked window
end(mt) ==
    IF mt.window # 0
    THEN [mt EXCEPT !.onCommit[mt.window] = FALSE, !.window = 0, !.mouseOffset = 0]
    ELSE mt

MouseNull == [type |-> "null"]

\* getPosition(): the offset applied to the tracked window's top-left corner
getPosition(mt) ==
    IF mt.window # 0 /\ mt.mouseOffset # 0
    THEN [type |-> "Point", window |-> mt.window, mouseOffset |-> mt.mouseOffset]
    ELSE MouseNull

MouseApply(mt) ==
    /\ mtWindow' = mt.window
    /\ mtMouseOffset' = mt.mouseOffset
    /\ mtOnTransform' = mt.onTransform
    /\ mtOnCommit' = mt.onCommit
    /\ mtPending' = mt.pending
    /\ UNCHANGED exceptMouse

\* DesktopWindow.onCreated.emit(window)
MTWindowCreated(w) ==
    /\ mtLife[w] = "none"
    /\ mtLife' = [mtLife EXCEPT ![w] = "live"]
    /\ MouseApply(onDesktopWindowCreated(MouseState, w))
    /\ UNCHANGED <<mtDrag, mtRaced, mtInOrder>>

\* DesktopWindow.onDestroyed.emit(window), of a window that is not being dragged
MTWindowDestroyed(w) ==
    /\ mtLife[w] = "live"
    /\ mtDrag # w
    /\ mtLife' = [mtLife EXCEPT ![w] = "dead"]
    /\ MouseApply(onDesktopWindowDestroyed(MouseState, w))
    /\ UNCHANGED <<mtDrag, mtRaced, mtInOrder>>

\* window.onTransform.emit(window, type): the user starts or continues a drag
MTTransform(w) ==
    /\ mtLife[w] = "live"
    /\ mtDrag \in {0, w}
    /\ Len(mtPending) < MaxPending
    /\ mtDrag' = w
    /\ mtRaced' = FALSE
    /\ MouseApply(IF mtOnTransform[w] THEN start(MouseState, w) ELSE MouseState)
    /\ UNCHANGED <<mtLife, mtInOrder>>

\* fin.System.getMousePosition() answers the oldest request
MTMousePosition ==
    /\ mtPending # <<>>
    /\ MouseApply(startResumed(MouseState))
    /\ UNCHANGED <<mtLife, mtDrag, mtRaced, mtInOrder>>

\* window.onCommit.emit(window, type): the user releases the window
MTCommit(w) ==
    /\ mtDrag = w
    /\ mtDrag' = 0
    /\ mtRaced' = includes(mtPending, w)
    /\ mtInOrder' = (mtInOrder /\ ~includes(mtPending, w))
    /\ MouseApply(IF mtOnCommit[w] THEN end(MouseState) ELSE MouseState)
    /\ UNCHANGED mtLife

MouseNext ==
    \/ \E w \in Tracked : MTWindowCreated(w)
    \/ \E w \in Tracked : MTWindowDestroyed(w)
    \/ \E w \in Tracked : MTTransform(w)
    \/ MTMousePosition
    \/ \E w \in Tracked : MTCommit(w)

\* ------------------------------------------------------------------------
\* Calls of ConfigUtil's functions
\* ------------------------------------------------------------------------
Uuids == {"app1", "app2"}
Names == {"win1", "win2"}

Scopes ==
    {[level |-> "service"], [level |-> "desktop"]}
    \cup {[level |-> "application", uuid |-> u] : u \in Uuids}
    \cup {[level |-> "window", uuid |-> u, name |-> n] : u \in Uuids, n \in Names}

Filters(values) ==
    {NoFilter} \cup {StringFilter(s) : s \in values}
    \cup {RegEx(accepted, invert) : accepted \in SUBSET values, invert \in BOOLEAN}

Rules ==
    {[level |-> "service"], [level |-> "desktop"]}
    \cup {[level |-> "application", uuid |-> u] : u \in Filters(Uuids)}
    \cup {[level |-> "window", uuid |-> u, name |-> n] : u \in Filters(Uuids), n \in Filters(Names)}

\* The configuration objects: every part of {enabled, features: {snap, tab}}
Features ==
    UNION {[keys -> BOOLEAN] : keys \in SUBSET {"snap", "tab"}}
Configs ==
    {enabled @@ features :
        enabled \in {<<>>} \cup {[enabled |-> b] : b \in BOOLEAN},
        features \in {<<>>} \cup {[features |-> f] : f \in Features}}

\* The masks of the configuration objects
FeatureMasks ==
    {MaskBoolean(b) : b \in BOOLEAN}
    \cup {MaskObject(m) : m \in UNION {[keys -> {MaskBoolean(b) : b \in BOOLEAN}] :
                                         keys \in SUBSET {"snap", "tab"}}}
Masks ==
    {MaskBoolean(b) : b \in BOOLEAN}
    \cup {MaskObject(enabled @@ features) :
            enabled \in {<<>>} \cup {[enabled |-> MaskBoolean(b)] : b \in BOOLEAN},
            features \in {<<>>} \cup {[features |-> m] : m \in FeatureMasks}}

\* The scopes of the entries of a store that is queried, and the scopes queried
EntryScopes ==
    {[level |-> "service"], [level |-> "desktop"],
     [level |-> "application", uuid |-> "app1"],
     [level |-> "window", uuid |-> "app1", name |-> "win1"],
     [level |-> "window", uuid |-> "app1", name |-> "win2"]}
QueryScopes ==
    {[level |-> "application", uuid |-> "app1"],
     [level |-> "window", uuid |-> "app1", name |-> "win1"]}

\* Entries without rules, holding any configuration object
Entries == [scope : EntryScopes, config : Configs]

\* Entries with or without rules, holding one of a few configuration objects
RuleConfigs ==
    {[enabled |-> FALSE],
     [features |-> [snap |-> FALSE]],
     [enabled |-> TRUE, features |-> [tab |-> FALSE]]}
\* The rules of these entries: their filters are absent or strings
StringFilters(values) == {NoFilter} \cup {StringFilter(s) : s \in values}
EntryRules ==
    {[level |-> "service"], [level |-> "desktop"]}
    \cup {[level |-> "application", uuid |-> u] : u \in StringFilters(Uuids)}
    \cup {[level |-> "window", uuid |-> u, name |-> n] :
            u \in StringFilters(Uuids), n \in StringFilters(Names)}
RuleLists == UNION {[1..n -> EntryRules] : n \in 1..MaxRules}
RuleEntries ==
    [scope : EntryScopes, config : RuleConfigs]
    \cup [scope : EntryScopes, config : RuleConfigs, rules : RuleLists]

\* The states of the windows of a snap group
WindowStates ==
    [center : [x : {0, 4}, y : {0, 2}],
     halfSize : {[x |-> 2, y |-> 2], [x |-> 4, y |-> 2]},
     hidden : BOOLEAN,
     state : {"normal", "minimized"}]

\* The window lists of snap groups of untabbed windows: windows[0] is the root
BoundsInputs ==
    {[fn |-> "calculateProperties", windows |-> ws] :
        ws \in UNION {[1..n -> WindowStates] : n \in 1..MaxMembers}}

\* The tab groups of the service when getTabSaveInfo is called: no window is a
\* tab of two groups, the active tab of a group is one of its tabs, and a
\* group that createTabGroupWithTabs has just pushed has no tab yet
SavedTabs == 1..MaxSavedTabs

SavedTabLists ==
    {list \in UNION {[1..n -> SavedTabs] : n \in 0..MaxSavedTabs} :
        \A i \in 1..Len(list), j \in 1..Len(list) : i # j => list[i] # list[j]}

SavedGroup ==
    {group \in [tabs : SavedTabLists, activeTab : SavedTabs \cup {NoActiveTab},
                url : {"tabstrip"},
                bounds : [left : {0, 2}, top : {0}, width : {4}, height : {1}],
                appHeight : {2, 4}] :
        IF group.tabs = <<>> THEN group.activeTab = NoActiveTab
        ELSE includes(group.tabs, group.activeTab)}

SavedGroups ==
    UNION {{groups \in [1..n -> SavedGroup] :
              \A i \in 1..n, j \in 1..n : i # j => Range(groups[i].tabs) \cap Range(groups[j].tabs) = {}} :
           n \in 0..MaxSavedGroups}

SaveInputs ==
    {[fn |-> "getTabSaveInfo", groups |-> groups, present |-> SavedTabs \ missing] :
        groups \in SavedGroups, missing \in {{}, {MaxSavedTabs}}}

\* The active tab of each tab group: one of its tabs, none when it has no tab
ActiveTabsOf(tabsOf) ==
    {activeOf \in [GroupIDs -> SavedTabs \cup {NoActiveTab}] :
        \A ID \in GroupIDs :
            IF tabsOf[ID] = <<>> THEN activeOf[ID] = NoActiveTab
            ELSE includes(tabsOf[ID], activeOf[ID])}

\* The tabs of the tab groups of the service when swapTab is called
SwapGroupTabs ==
    {f \in [GroupIDs -> SavedTabLists] :
        \A i \in GroupIDs, j \in GroupIDs : i # j => Range(f[i]) \cap Range(f[j]) = {}}

\* The tab groups of the service when swapTab is called, and its arguments
SwapInput(n, tabsOf, activeOf, addID, swapWith) ==
    [fn |-> "swapTab", tabGroups |-> [i \in 1..n |-> i], groupTabs |-> tabsOf,
     active |-> activeOf, add |-> addID, swapWith |-> swapWith]

\* The tab groups of the service when isPointOverTabGroup is called: group i
\* has tab i as its active tab, or no tab yet
HitGroups ==
    UNION {{groups \in [1..n -> [ID : GroupIDs, activeTab : TabIdentifiers \cup {NoActiveTab},
                                  showing : BOOLEAN, height : {1, 2},
                                  bounds : [left : {0, 2}, top : {0}, width : {2}, height : {1}]]] :
              \A i \in 1..n : /\ groups[i].ID = i
                               /\ groups[i].activeTab \in {i, NoActiveTab}
                               /\ (groups[i].activeTab = NoActiveTab
                                      => ~groups[i].showing /\ groups[i].height = 1)} :
           n \in 0..MaxHitGroups}

HitInputs ==
    {[fn |-> "isPointOverTabGroup", groups |-> groups, stack |-> stack, x |-> x, y |-> y] :
        groups \in HitGroups, stack \in {<<1, 2>>, <<2, 1>>}, x \in {1, 3}, y \in {1, 2}}

NoInput == [fn |-> "none"]
NoOutput == [done |-> FALSE]
Returned(result) == [done |-> TRUE, result |-> result]

UtilInputs ==
    {[fn |-> "matchesScope", spec |-> s, value |-> v] : s \in Scopes, v \in Scopes}
    \cup {[fn |-> "ruleCanBeAddedInScope", rule |-> r, scope |-> s] : r \in Rules, s \in Scopes}
    \cup {[fn |-> "matchesRule", rule |-> r, scope |-> s] : r \in Rules, s \in Scopes}
    \cup {[fn |-> "deepAssignMask", value |-> c, mask |-> m] : c \in Configs, m \in Masks}
    \cup {[fn |-> "query", entries |-> es, scope |-> s] :
            es \in [1..MaxMerged -> Entries],
            s \in {[level |-> "window", uuid |-> "app1", name |-> "win1"]}}
    \cup {[fn |-> "add", entries |-> es, entry |-> e, scope |-> s] :
            es \in UNION {[1..n -> [scope : EntryScopes, config : RuleConfigs]] : n \in 0..MaxStored},
            e \in RuleEntries, s \in QueryScopes}

UtilIdle ==
    /\ input = NoInput
    /\ output = NoOutput

Return(result) ==
    /\ ~output.done
    /\ output' = Returned(result)
    /\ UNCHANGED <<input, exceptUtil>>

MatchesScope ==
    /\ input.fn = "matchesScope"
    /\ Return(matchesScope(input.spec, input.value))

RuleCanBeAddedInScope ==
    /\ input.fn = "ruleCanBeAddedInScope"
    /\ Return(ruleCanBeAddedInScope(input.rule, input.scope))

MatchesRule ==
    /\ input.fn = "matchesRule"
    /\ Return(matchesRule(input.rule, input.scope))

\* deepAssignMask into an empty target
DeepAssignMask ==
    /\ input.fn = "deepAssignMask"
    /\ Return(deepAssignMask(<<>>, input.value, input.mask))

\* query(scope) on a store holding the entries
Query ==
    /\ input.fn = "query"
    /\ Return(query(input.entries, input.scope))

\* add(sourceScope, config) followed by query(scope)
AddThenQuery ==
    /\ input.fn = "add"
    /\ Return(query(add(input.entries, input.entry), input.scope))

\* A read of the group's center and halfSize whose cached values are stale
CalculateProperties ==
    /\ input.fn = "calculateProperties"
    /\ LET root == input.windows[1]
           value == calculateProperties(input.windows, root)
       IN Return([origin |-> value.origin, center |-> center(root, value.origin),
                  halfSize |-> value.halfSize])

BoundsNext == CalculateProperties

IsPointOverTabGroup ==
    /\ input.fn = "isPointOverTabGroup"
    /\ Return(isPointOverTabGroup(input.groups, input.stack, input.x, input.y))

HitNext == IsPointOverTabGroup

\* getTabSaveInfo(): the blobs are returned to the caller, who holds them
Saved(blobs) == [done |-> FALSE, saved |-> blobs]

GetTabSaveInfo ==
    /\ input.fn = "getTabSaveInfo"
    /\ output = NoOutput
    /\ LET result == getTabSaveInfo(input.groups)
       IN output' = IF result = SaveTypeError THEN Returned(SaveTypeError) ELSE Saved(result.blobs)
    /\ UNCHANGED <<input, exceptUtil>>

\* restoreTabs(blobs) on the blobs that getTabSaveInfo returned, in a service
\* without tab groups
RestoreTabs ==
    /\ input.fn = "getTabSaveInfo"
    /\ output # NoOutput
    /\ ~output.done
    /\ output' = [done |-> TRUE, saved |-> output.saved,
                  result |-> restoreTabs(output.saved, input.present)]
    /\ UNCHANGED <<input, exceptUtil>>

SwapTab ==
    /\ input.fn = "swapTab"
    /\ Return(swapTab(input.tabGroups, input.groupTabs, input.active, input.add, input.swapWith))

SwapNext == SwapTab

SaveRestoreNext ==
    \/ GetTabSaveInfo
    \/ RestoreTabs


UtilNext ==
    \/ Query
    \/ AddThenQuery
    \/ MatchesScope
    \/ RuleCanBeAddedInScope
    \/ MatchesRule
    \/ DeepAssignMask

vars == <<modelVars, serviceVars, managerVars, tabSetVars, previewVars, mouseVars, utilVars>>

\* The program after construction, no call of a function having been noted
ProgramInit ==
    ModelInit /\ ServiceInit /\ ManagerInit /\ TabSetInit /\ PreviewInit /\ MouseInit

Init == ProgramInit /\ UtilIdle

\* The state in which one of ConfigUtil's functions is about to be called
InitUtil ==
    /\ ProgramInit
    /\ input \in UtilInputs
    /\ output = NoOutput

\* Snap groups: window creation, snap commits, undocking and teardown
Spec == Init /\ [][SnapNext]_vars

\* Snap and tab groups under the configuration store's 'enabled' rules
SpecConfig == Init /\ [][ConfigNext]_vars

\* The tab service's asynchronous calls, interleaved at their awaits
SpecTabService == Init /\ [][ServiceNext]_vars

\* getTabSaveInfo interleaved with the tab service's other calls
SpecSaveInfo == Init /\ [][SaveInfoNext]_vars

\* The tab strip's TabManager
SpecTabManager == Init /\ [][ManagerNext]_vars

\* The snapping service's SnapTabSet
SpecTabSet == Init /\ [][TabSetNext]_vars

\* The SnapTabSet and the bounds of its pseudo-window
SpecPseudoState == Init /\ [][PseudoStateNext]_vars

\* The state in which a snap group of some windows is about to be measured
InitBounds ==
    /\ ProgramInit
    /\ input \in BoundsInputs
    /\ output = NoOutput

\* The bounds of a snap group, recomputed for every window list of the domain
SpecBounds == InitBounds /\ [][BoundsNext]_vars

\* The state in which the tab service is about to hit-test a point
InitHit ==
    /\ ProgramInit
    /\ input \in HitInputs
    /\ output = NoOutput

InitSave ==
    /\ ProgramInit
    /\ input \in SaveInputs
    /\ output = NoOutput

\* Save, then restore of what was saved, for every list of tab groups of the domain
SpecSaveRestore == InitSave /\ [][SaveRestoreNext]_vars

InitSwap ==
    /\ ProgramInit
    /\ \E tabsOf \in SwapGroupTabs :
          \E activeOf \in ActiveTabsOf(tabsOf), n \in 1..MaxGroupIDs,
             addID \in SavedTabs, swapWith \in SavedTabs :
              input = SwapInput(n, tabsOf, activeOf, addID, swapWith)
    /\ output = NoOutput

\* swapTab, for every list of tab groups and every pair of identities of the domain
SpecSwap == InitSwap /\ [][SwapNext]_vars

\* Snap groups under transforms of their windows
SpecTransform == Init /\ [][TransformNext]_vars

\* The snap preview, shown and hidden for changing groups and validities
SpecPreview == Init /\ [][PreviewNext]_vars

\* The preview pool, shown for groups of more windows than it starts with
InitPool ==
    /\ ModelInit /\ ServiceInit /\ ManagerInit /\ TabSetInit /\ MouseInit /\ UtilIdle
    /\ PoolInit

SpecPool == InitPool /\ [][PoolNext]_vars

\* The mouse tracker, through drags of the windows it listens to
SpecMouse == Init /\ [][MouseNext]_vars

\* The tab service's hit test, for every list of tab groups of the domain
SpecHit == InitHit /\ [][HitNext]_vars

\* ConfigUtil's functions, each called on every input of its bounded domain
SpecConfigUtil == InitUtil /\ [][UtilNext]_vars

\* ------------------------------------------------------------------------
\* Properties of snap groups
\* ------------------------------------------------------------------------
Positions(w) == {<<g, i>> \in Groups \X (1..NumWindows) : i <= Len(windows[g]) /\ windows[g][i] = w}
WasSent(msgs, kind, w) == <<kind, w>> \in Range(msgs)

\* C1: every live managed window appears in the window list of exactly one snap
\* group, exactly once, after any sequence of adds, moves and teardowns.
C1_ExactlyOneSnapGroup ==
    \A w \in Windows : Managed(w) => Cardinality(Positions(w)) = 1

\* C1 witness: a window has moved from one group to another and a window has been torn down
C1_Witness ==
    /\ \E w \in Windows : Managed(w) /\ prevGroup[w] # NoGroup /\ Cardinality(Positions(w)) = 1
    /\ \E x \in Windows : life[x] = "dead"

\* C2: each window's client-visible grouped status equals whether its current
\* snap group holds two or more windows.
C2_GroupedStatusMatchesSize ==
    \A w \in Windows : Managed(w) => (grouped[w] <=> Len(windows[snapGroup[w]]) >= 2)

\* C3: addWindow(w) on a group that does not contain w sends JOIN_SNAP_GROUP to w
\* exactly when the group holds two or more windows after the add; an add to an
\* empty group sends no JOIN_SNAP_GROUP.
C3_JoinIffTwoOrMore ==
    [][\A g \in Groups, w \in Windows :
        (lastOp' = Op("addWindow", g, w) /\ ~includes(windows[g], w))
        => /\ includes(windows'[g], w)
           /\ WasSent(sent', JOIN_SNAP_GROUP, w) <=> Len(windows'[g]) >= 2
           /\ windows[g] = <<>> => ~WasSent(sent', JOIN_SNAP_GROUP, w)]_vars

\* C3 witness: the last addWindow made a group of two or more and sent JOIN_SNAP_GROUP
C3_Witness ==
    /\ lastOp.op = "addWindow"
    /\ Len(windows[lastOp.g]) >= 2
    /\ WasSent(sent, JOIN_SNAP_GROUP, lastOp.w)

\* C4 as stated: a removal of w from a group sends LEAVE_SNAP_GROUP to w if and
\* only if the group still holds a window after the removal.
C4_LeaveIffNonEmpty ==
    [][\A g \in Groups, w \in Windows :
        (includes(windows[g], w) /\ ~includes(windows'[g], w))
        => (WasSent(sent', LEAVE_SNAP_GROUP, w) <=> Len(windows'[g]) >= 1)]_vars

\* C4 amended: a removal of w from a group sends LEAVE_SNAP_GROUP to w if and
\* only if the group still holds a window after the removal and w is ready.
C4_LeaveIffNonEmptyAndReady ==
    [][\A g \in Groups, w \in Windows :
        (includes(windows[g], w) /\ ~includes(windows'[g], w))
        => (WasSent(sent', LEAVE_SNAP_GROUP, w) <=> (Len(windows'[g]) >= 1 /\ ready[w]))]_vars

\* C4 witness: a window has left a group that keeps other windows, and was sent LEAVE_SNAP_GROUP
C4_Witness ==
    \E w \in Windows :
        /\ WasSent(sent, LEAVE_SNAP_GROUP, w)
        /\ \E g \in Groups : <<"onWindowRemoved", g, w>> \in Range(emitted) /\ Len(windows[g]) >= 1

\* C5: when the singleton group of B is merged into the singleton group of A by
\* addWindow, A and B end in one snap group and both are sent JOIN_SNAP_GROUP.
C5_MergeJoinsBoth ==
    [][\A a \in Windows, b \in Windows :
        (/\ a # b /\ Managed(a) /\ Managed(b)
         /\ windows[snapGroup[a]] = <<a>> /\ windows[snapGroup[b]] = <<b>>
         /\ lastOp' = Op("addWindow", snapGroup[a], b))
        => /\ windows'[snapGroup[a]] = <<a, b>>
           /\ snapGroup'[a] = snapGroup'[b]
           /\ WasSent(sent', JOIN_SNAP_GROUP, a)
           /\ WasSent(sent', JOIN_SNAP_GROUP, b)]_vars

\* C6: onDestroyed is emitted for a group exactly once in the operation that
\* removes its last window, and never for a group that still has windows.
C6_DestroyedIffEmptied ==
    [][\A g \in Groups :
        Count(emitted', <<"onDestroyed", g, 0>>) =
            IF windows[g] # <<>> /\ windows'[g] = <<>> THEN 1 ELSE 0]_vars

\* C6 witness: the last operation emptied a group and emitted onDestroyed for it
C6_Witness ==
    \E g \in Groups : g < nextId /\ windows[g] = <<>> /\ <<"onDestroyed", g, 0>> \in Range(emitted)

\* ------------------------------------------------------------------------
\* Properties of the 'enabled' configuration
\* ------------------------------------------------------------------------

\* The value of the last entry of the store that satisfies the test, or the default
RECURSIVE lastValue(_, _, _, _)
lastValue(es, level, w, default) ==
    IF es = <<>> THEN default
    ELSE LET e == es[Len(es)]
         IN IF /\ e.scope.level = level /\ e.scope.uuid = uuidOf(w)
               /\ (level = "window" => e.scope.name = nameOf(w))
            THEN e.config.enabled
            ELSE lastValue(SubSeq(es, 1, Len(es) - 1), level, w, default)

\* The expected 'enabled' of a window: that of the latest entry added at its own
\* window scope, else the default (true)
ExpectedEnabled(es, w) == lastValue(es, "window", w, TRUE)

\* C7: a live window whose effective 'enabled' is false is de-registered, shares
\* a snap group with no other window and is a tab of no tab group.
C7_DisabledWindowIsAlone ==
    \A w \in Windows :
        (life[w] = "live" /\ ~enabledIn(entries, w))
        => /\ ~registered[w]
           /\ tabGroup[w] = NoTabGroup
           /\ \A t \in TabGroupIds : ~includes(tabs[t], w)
           /\ \A g \in Groups : includes(windows[g], w) => windows[g] = <<w>>

\* C7 witness: a rule has just de-registered a window that was tabbed and snapped with another
C7_Witness ==
    \E w \in Windows, g \in Groups :
        /\ lastOp.op = "addRule"
        /\ life[w] = "live" /\ ~enabledIn(entries, w) /\ ~registered[w]
        /\ WasSent(sent, LEAVE_TAB_GROUP, w)
        /\ <<"onWindowRemoved", g, w>> \in Range(emitted)
        /\ Len(windows[g]) >= 1

\* C8: a live window is registered exactly when its effective 'enabled' is true,
\* after any sequence of rule additions.
C8_RegistrationTracksEnabled ==
    \A w \in Windows : life[w] = "live" => (registered[w] <=> ExpectedEnabled(entries, w))

\* C8 witness: a window de-registered by one rule has been registered again by a later rule
C8_Witness ==
    \E w \in Windows :
        /\ life[w] = "live" /\ registered[w]
        /\ Len(entries) = 2
        /\ ~ExpectedEnabled(SubSeq(entries, 1, 1), w)
        /\ ExpectedEnabled(entries, w)

\* ------------------------------------------------------------------------
\* Properties of the tab service and of the tab strip
\* ------------------------------------------------------------------------

\* C9: every tab group present in TabService.tabGroups holds at least two tabs in
\* every observable state, also between the awaited steps of createTabGroupWithTabs.
C9_TabGroupsHoldTwoTabs ==
    \A i \in 1..Len(tabGroups) : Len(groupTabs[tabGroups[i]]) >= 2

\* C10: the TabManager's activeTab, when there is one, is one of its current tabs.
C10_ActiveTabIsATab ==
    tmActiveTab # NoTab => includes(tmTabs, tmActiveTab)

\* C11: when the active tab, at index i, is removed and other tabs remain, the
\* tab that followed it (old index i + 1) becomes the active tab, or the tab
\* that preceded it (old index i - 1) if the removed tab was the last one.
C11_RemoveActiveSelectsNext ==
    [][\A i \in 1..Len(tmTabs) :
          (/\ tmTabs[i] = tmActiveTab
           /\ Len(tmTabs) >= 2
           /\ tmTabs' = splice(tmTabs, i))
          => tmActiveTab' = IF i < Len(tmTabs) THEN tmTabs[i + 1] ELSE tmTabs[i - 1]]_vars

\* C12: addTab is idempotent per identity. No tab list holds two entries of one
\* identity, and a second addTab of the same window leaves the tab list, the
\* listeners and the membership pointers as the first addTab left them; this
\* holds for the tab strip's TabManager and for the SnapTabSet.
C12_AddTabIdempotent ==
    /\ \A i, j \in 1..Len(tsTabs) : tsTabs[i].id = tsTabs[j].id => i = j
    /\ \A i, j \in 1..Len(tmTabs) : tmTabs[i].id = tmTabs[j].id => i = j
    /\ \A window \in SnapWindows :
          LET once == tsAddTab(TabSetState, window.id, window)
          IN /\ tsAddTab(once, window.id, window) = once
             /\ \A other \in SnapWindows :
                   other.id = window.id => tsAddTab(once, other.id, other) = once
    /\ \A list \in TabLists \cup {<<>>}, tabID \in TabIdentifiers :
          LET m == [tabs |-> [i \in 1..Len(list) |-> [id |-> list[i], serial |-> i]],
                    activeTab |-> NoTab, nextTab |-> Len(list) + 1, active |-> {}]
              once == addTab(m, tabID)
          IN /\ addTab(once, tabID) = once
             /\ \A i, j \in 1..Len(once.tabs) : once.tabs[i].id = once.tabs[j].id => i = j

\* A tab set holding as many tabs as there are identities, one of them added
\* while another SnapWindow of its identity still carries a listener
C12_Witness ==
    /\ Len(tsTabs) = NumTabs
    /\ \E window \in SnapWindows :
          /\ includes(tsTabs, window)
          /\ \E other \in SnapWindows :
                other.id = window.id /\ other # window /\ tsListeners[other] > 0

\* C13: switching to a tab is idempotent. For every tab x of the tab strip, one
\* setActiveTab(x) makes x the active tab, leaves every other tab inactive and
\* the tab list unchanged, and a second setActiveTab(x) changes nothing more.
C13_SetActiveTabIdempotent ==
    \A i \in 1..Len(tmTabs) :
        LET x == tmTabs[i].id
            once == setActiveTab(ManagerState, x)
        IN /\ setActiveTab(once, x) = once
           /\ once.activeTab = tmTabs[i]
           /\ once.active \cap Range(once.tabs) = {tmTabs[i]}
           /\ once.tabs = tmTabs

\* Several tabs, one of them active while the switch goes to another
C13_Witness ==
    /\ Len(tmTabs) >= 2
    /\ tmActiveTab \in tmActive
    /\ \E i \in 1..Len(tmTabs) : tmTabs[i] # tmActiveTab /\ includes(tmTabs, tmActiveTab)

\* ------------------------------------------------------------------------
\* Properties of ConfigUtil
\* ------------------------------------------------------------------------
\* The pairs <<a, b>> of levels with a the same as, or broader than, b
BroaderOrEqual ==
    {<<"service", "service">>, <<"service", "desktop">>, <<"service", "application">>,
     <<"service", "window">>, <<"desktop", "desktop">>, <<"desktop", "application">>,
     <<"desktop", "window">>, <<"application", "application">>,
     <<"application", "window">>, <<"window", "window">>}

CarriesUuid(scope) == scope.level \in {"application", "window"}
CarriesName(scope) == scope.level = "window"

\* C14: matchesScope(spec, value) is true exactly when spec is at the same or a
\* broader level than value and the two scopes agree on every component both
\* carry; an application scope matches a window scope only if the uuids agree.
C14_MatchesScopeComparesComponents ==
    (input.fn = "matchesScope" /\ output.done) =>
        output.result =
            (/\ <<input.spec.level, input.value.level>> \in BroaderOrEqual
             /\ (CarriesUuid(input.spec) /\ CarriesUuid(input.value)
                    => input.spec.uuid = input.value.uuid)
             /\ (CarriesName(input.spec) /\ CarriesName(input.value)
                    => input.spec.name = input.value.name))

\* The leaves of a configuration object, each with its path
RECURSIVE Leaves(_, _)
Leaves(tree, prefix) ==
    UNION {IF isObject(key)
           THEN Leaves(tree[key], Append(prefix, key))
           ELSE {[path |-> Append(prefix, key), value |-> tree[key]]} : key \in DOMAIN tree}

\* Whether the mask is truthy at a path: true there, true above it, or true
\* inside the sub-masks that lead to it
RECURSIVE Selected(_, _)
Selected(mask, path) ==
    IF mask.type = "boolean" THEN mask.value
    ELSE /\ path # <<>>
         /\ Head(path) \in DOMAIN mask.members
         /\ Selected(mask.members[Head(path)], Tail(path))

\* C15: the masked copy of a configuration object (deepAssignMask into an empty
\* target) holds exactly the leaves whose mask is truthy, those selected inside
\* nested sub-masks included, and no other field.
C15_MaskedCopyHoldsSelectedLeaves ==
    (input.fn = "deepAssignMask" /\ output.done) =>
        Leaves(output.result, <<>>)
            = {leaf \in Leaves(input.value, <<>>) : Selected(input.mask, leaf.path)}

\* C17: a rule is accepted for addition at a source scope exactly when the
\* rule's level is the source scope's level or a more specific one, for each of
\* the 4 x 4 combinations of levels.
C17_RuleAddedAtOrBelowSource ==
    (input.fn = "ruleCanBeAddedInScope" /\ output.done) =>
        output.result = (<<input.scope.level, input.rule.level>> \in BroaderOrEqual)

\* A window rule accepted at an application scope, a service rule refused there
C17_Witness ==
    /\ input.fn = "ruleCanBeAddedInScope" /\ output.done
    /\ input.scope.level = "application"
    /\ \/ input.rule.level = "window" /\ output.result
       \/ input.rule.level = "service" /\ ~output.result

\* Whether a filter that a rule specifies accepts a component of a scope
Accepts(filter, value) ==
    CASE filter.type = "undefined" -> TRUE
      [] filter.type = "string" -> filter.string = value
      [] filter.type = "object" -> IF filter.invert THEN value \notin filter.accepted
                                   ELSE value \in filter.accepted

\* C18: matchesRule(rule, scope) is true iff the rule's level is the scope's
\* level or a broader one and every pattern the rule specifies accepts the
\* scope's component; a rule of a more specific level than the scope never
\* matches.
C18_MatchesRuleLevelAndPatterns ==
    (input.fn = "matchesRule" /\ output.done) =>
        output.result =
            (/\ <<input.rule.level, input.scope.level>> \in BroaderOrEqual
             /\ (CarriesUuid(input.rule) => Accepts(input.rule.uuid, input.scope.uuid))
             /\ (CarriesName(input.rule) => Accepts(input.rule.name, input.scope.name)))

\* An application rule with an inverted RegEx that matches a window scope
C18_Witness ==
    /\ input.fn = "matchesRule" /\ output.done /\ output.result
    /\ input.rule.level = "application" /\ input.scope.level = "window"
    /\ input.rule.uuid.type = "object" /\ input.rule.uuid.invert

\* The paths of the leaves of a configuration object, and the value at a path
Paths(config) == {leaf.path : leaf \in Leaves(config, <<>>)}
ValueAt(config, path) == (CHOOSE leaf \in Leaves(config, <<>>) : leaf.path = path).value

\* The entries that match the scope and set the path
Setting(es, scope, path) ==
    {i \in 1..Len(es) : matchesScope(es[i].scope, scope) /\ path \in Paths(es[i].config)}

\* Of these, the entry applied last: the narrowest, and among those of one level
\* the one stored last
Narrowest(es, scope, path) ==
    CHOOSE i \in Setting(es, scope, path) :
        \A j \in Setting(es, scope, path) :
            \/ scopePriorityMap(es[j].scope.level) < scopePriorityMap(es[i].scope.level)
            \/ scopePriorityMap(es[j].scope.level) = scopePriorityMap(es[i].scope.level) /\ j <= i

\* C16: merging the matching entries with deepAssign in ascending scope priority
\* gives, at every path set by several entries, the value of the narrowest one,
\* and keeps every leaf that only broader entries (or the defaults) set.
C16_NarrowestEntryWins ==
    (input.fn = "query" /\ output.done) =>
        LET es == input.entries
            set == UNION {Paths(es[i].config) : i \in {j \in 1..Len(es) : matchesScope(es[j].scope, input.scope)}}
        IN /\ Paths(output.result) = set \cup Paths(DefaultConfig)
           /\ \A path \in Paths(output.result) :
                 ValueAt(output.result, path) =
                    IF Setting(es, input.scope, path) # {}
                    THEN ValueAt(es[Narrowest(es, input.scope, path)].config, path)
                    ELSE ValueAt(DefaultConfig, path)

\* A window entry stored before a service entry: both set features.snap, to
\* different values, and only the service entry sets features.tab
C16_Witness ==
    /\ input.fn = "query" /\ output.done
    /\ input.entries[1].scope.level = "window" /\ input.entries[2].scope.level = "service"
    /\ matchesScope(input.entries[1].scope, input.scope)
    /\ DOMAIN input.entries[1].config = {"features"}
    /\ DOMAIN input.entries[1].config.features = {"snap"}
    /\ DOMAIN input.entries[2].config = {"features"}
    /\ DOMAIN input.entries[2].config.features = {"snap", "tab"}
    /\ input.entries[1].config.features.snap # input.entries[2].config.features.snap
    /\ output.result.features.snap = input.entries[1].config.features.snap
    /\ output.result.features.tab = input.entries[2].config.features.tab

\* C19: adding an entry whose rules do not match the scope S leaves the
\* effective configuration queried at S as it was, whatever the store held.
C19_UnmatchedEntryChangesNothing ==
    (input.fn = "add" /\ output.done) =>
        (("rules" \in DOMAIN input.entry
          /\ \E i \in 1..Len(input.entry.rules) :
                \/ <<input.entry.rules[i].level, input.scope.level>> \notin BroaderOrEqual
                \/ CarriesUuid(input.entry.rules[i])
                     /\ ~Accepts(input.entry.rules[i].uuid, input.scope.uuid)
                \/ CarriesName(input.entry.rules[i])
                     /\ ~Accepts(input.entry.rules[i].name, input.scope.name))
         => output.result = query(input.entries, input.scope))

\* An entry stored at the window's own scope that would disable the window, with
\* a rule for another window name: the window stays enabled
C19_Witness ==
    /\ input.fn = "add" /\ output.done
    /\ input.scope.level = "window"
    /\ input.entry.scope = input.scope
    /\ input.entry.config = [enabled |-> FALSE]
    /\ "rules" \in DOMAIN input.entry
    /\ input.entry.rules[1].level = "window"
    /\ input.entry.rules[1].name = StringFilter("win2")
    /\ input.entries = <<>>
    /\ output.result.enabled

\* ------------------------------------------------------------------------
\* Properties of the bounds of a snap group
\* ------------------------------------------------------------------------
Visible(states) == {i \in 1..Len(states) : ~states[i].hidden /\ states[i].state = "normal"}

Least(values) == CHOOSE v \in values : \A u \in values : v <= u
Greatest(values) == CHOOSE v \in values : \A u \in values : v >= u

\* The axis-aligned hull of the rects of some of the windows
Hull(states, members) ==
    LET left == Least({states[i].center.x - states[i].halfSize.x : i \in members})
        right == Greatest({states[i].center.x + states[i].halfSize.x : i \in members})
        top == Least({states[i].center.y - states[i].halfSize.y : i \in members})
        bottom == Greatest({states[i].center.y + states[i].halfSize.y : i \in members})
    IN [center |-> [x |-> (left + right) \div 2, y |-> (top + bottom) \div 2],
        halfSize |-> [x |-> (right - left) \div 2, y |-> (bottom - top) \div 2]]

\* C20: after a recompute, the bounding box of a snap group of two or more
\* windows is the hull of the rects of its members that are not hidden and are
\* in state 'normal', and that of a group of one window is that window's rect.
C20_BoundsAreHullOfVisibleMembers ==
    (input.fn = "calculateProperties" /\ output.done) =>
        LET states == input.windows
        IN /\ (Len(states) >= 2 /\ Visible(states) # {})
                 => /\ output.result.center = Hull(states, Visible(states)).center
                    /\ output.result.halfSize = Hull(states, Visible(states)).halfSize
           /\ Len(states) = 1
                 => /\ output.result.center = states[1].center
                    /\ output.result.halfSize = states[1].halfSize

\* C21: a recompute on a snap group of two or more windows of which exactly one,
\* v, is visible and in state 'normal' yields origin zero and v's halfSize,
\* also when v is not the root window; with no such member it yields the zero
\* rect.
C21_OneVisibleMemberGivesItsHalfSize ==
    (input.fn = "calculateProperties" /\ output.done /\ Len(input.windows) >= 2) =>
        /\ \A v \in 1..Len(input.windows) :
              Visible(input.windows) = {v}
                 => /\ output.result.origin = [x |-> 0, y |-> 0]
                    /\ output.result.halfSize = input.windows[v].halfSize
        /\ Visible(input.windows) = {}
              => /\ output.result.origin = [x |-> 0, y |-> 0]
                 /\ output.result.halfSize = [x |-> 0, y |-> 0]

\* ------------------------------------------------------------------------
\* Properties of the tab service's hit test
\* ------------------------------------------------------------------------
\* The groups whose active tab is showing and whose region, the tab strip with
\* the active tab's body below it, holds the point
Over(groups, x, y) ==
    {i \in 1..Len(groups) :
        /\ groups[i].activeTab # NoActiveTab /\ groups[i].showing
        /\ groups[i].bounds.left < x /\ x < groups[i].bounds.left + groups[i].bounds.width
        /\ groups[i].bounds.top < y
        /\ y < groups[i].bounds.top + groups[i].bounds.height + groups[i].height}

\* C22: isPointOverTabGroup(x, y) returns null or a tab group whose active tab is
\* showing and whose region holds (x, y): null when there is no such group, a
\* group when there is one.
C22_HitTestReturnsGroupUnderPoint ==
    (input.fn = "isPointOverTabGroup" /\ output.done) =>
        LET over == Over(input.groups, input.x, input.y)
        IN /\ output.result.type \in {"null", "TabGroup"}
           /\ output.result.type = "null" <=> over = {}
           /\ output.result.type = "TabGroup"
                 => \E i \in over : input.groups[i].ID = output.result.ID

\* ------------------------------------------------------------------------
\* Properties of the SnapTabSet's pseudo-window
\* ------------------------------------------------------------------------
\* C23: whenever the tab set is initialised and its active tab is one of its
\* tabs, getState() reports center = (active.center.x, active.center.y -
\* strip.halfSize.y) and halfSize = (active.halfSize.x, active.halfSize.y +
\* strip.halfSize.y), from the current states of the tab strip and of the
\* active tab.
C23_PseudoStateCoversStripAndActiveTab ==
    (tsInitialised /\ findIndex(tsTabs, ActiveTab) # 0) =>
        /\ getState(TabSetState).center =
              [x |-> tsActiveState.center.x, y |-> tsActiveState.center.y - tsStripState.halfSize.y]
        /\ getState(TabSetState).halfSize =
              [x |-> tsActiveState.halfSize.x, y |-> tsActiveState.halfSize.y + tsStripState.halfSize.y]

\* ------------------------------------------------------------------------
\* Properties of save and restore
\* ------------------------------------------------------------------------
RoundTripDone == input.fn = "getTabSaveInfo" /\ output.done /\ "saved" \in DOMAIN output
AllPresent == \A i \in 1..Len(input.groups) : Range(input.groups[i].tabs) \subseteq input.present

without(s, x) == SelectSeq(s, LAMBDA y : y # x)
SwapDone == input.fn = "swapTab" /\ output.done
SwapGroup == getTabGroupByApp(input.tabGroups, input.groupTabs, input.swapWith)

\* The tabs of G after the call hold add at the index that swapWith had, no
\* longer hold swapWith, are as many as before, and hold the other tabs in
\* their original order
SwappedInPlace ==
    LET before == input.groupTabs[SwapGroup]
        after == output.result.groupTabs[SwapGroup]
        i == indexOf(before, input.swapWith)
    IN /\ Len(after) = Len(before)
       /\ after[i] = input.add
       /\ ~includes(after, input.swapWith)
       /\ without(after, input.add) = without(before, input.swapWith)

\* C25 (as stated): swapTab(add, swapWith), when swapWith is a tab of tab
\* group G at index i, leaves G with add at index i, swapWith no longer in G,
\* the number of tabs unchanged and all other tabs in their original order.
C25_SwapTabKeepsIndex ==
    (SwapDone /\ SwapGroup # 0) => SwappedInPlace

\* C25 (amended): the same, when add is not a tab of any tab group.
C25_SwapTabOfNewWindowKeepsIndex ==
    (SwapDone /\ SwapGroup # 0
        /\ getTabGroupByApp(input.tabGroups, input.groupTabs, input.add) = 0) => SwappedInPlace

C25_Witness ==
    /\ SwapDone
    /\ SwapGroup # 0
    /\ getTabGroupByApp(input.tabGroups, input.groupTabs, input.add) = 0
    /\ Len(input.groupTabs[SwapGroup]) = 3
    /\ indexOf(input.groupTabs[SwapGroup], input.swapWith) = 2
    /\ output.result.groupTabs[SwapGroup][2] = input.add

\* ------------------------------------------------------------------------
\* Properties of the snap preview
\* ------------------------------------------------------------------------
\* C26: after every show(target), every active preview window has the
\* success colour if target.validity is VALID and the failure colour
\* otherwise, whatever calls of show and hide came before.
C26_PreviewsColouredByValidity ==
    (pvCall.op = "show" /\ ~pvCall.threw) =>
        \A i \in 1..Len(pvActive) :
            pvActive[i].background = IF pvCall.validity = "VALID" THEN PREVIEW_SUCCESS ELSE PREVIEW_FAILURE

\* ------------------------------------------------------------------------
\* Properties of snap groups under transforms
\* ------------------------------------------------------------------------
Emissions(signal, g) == Cardinality({i \in 1..Len(emitted) : emitted[i][1] = signal /\ emitted[i][2] = g})
AllListen(g) == \A i \in 1..Len(windows[g]) : g \in onModified[windows[g][i]]

\* C27: when a snap group of two or more windows is moved as a unit and every
\* member raises a MOVE transform for that move, the group emits onTransform
\* exactly once.
C27_GroupMoveEmitsOnce ==
    (lastOp.op = "move" /\ Len(windows[lastOp.g]) >= 2 /\ AllListen(lastOp.g)) =>
        Emissions("onTransform", lastOp.g) = 1

\* C28 (as stated): after a transform of a member (MOVE or RESIZE), a
\* modification of a member, or the addition of a window, the cached origin
\* and halfSize of the group are marked stale.
C28_CacheStaleAfterChange ==
    (/\ lastOp.op \in {"move", "resize", "modify", "addWindow"}
     /\ lastOp.g # NoGroup
     /\ lastOp.op \in {"resize", "modify"} => lastOp.g \in onModified[lastOp.w]
     /\ lastOp.op = "move" => AllListen(lastOp.g)
     /\ lastOp.op = "addWindow" => <<"onWindowAdded", lastOp.g, lastOp.w>> \in Range(emitted))
        => stale[lastOp.g].origin /\ stale[lastOp.g].halfSize

\* C28 (amended): after a transform of a member that includes a RESIZE, a
\* modification of a member, the addition or removal of a window, or a change
\* of the root, the cached origin and halfSize of the group are marked stale;
\* a move of the group leaves the stale marks as they were.
C28_CacheStaleAfterResizeOrChange ==
    [][\A g \in Groups :
          /\ (\/ rootWindow'[g] # rootWindow[g]
              \/ windows'[g] # windows[g]
              \/ /\ lastOp'.op \in {"resize", "modify"}
                 /\ lastOp'.g = g
                 /\ g \in onModified[lastOp'.w])
                => stale'[g].origin /\ stale'[g].halfSize
          /\ (lastOp'.op = "move" /\ lastOp'.g = g) => stale'[g] = stale[g]]_vars

C28_Witness ==
    /\ lastOp.op = "resize"
    /\ Len(windows[lastOp.g]) >= 2
    /\ lastOp.g \in onModified[lastOp.w]
    /\ Emissions("onTransform", lastOp.g) = 1
    /\ stale[lastOp.g].origin /\ stale[lastOp.g].halfSize
    /\ \E g \in Groups : g # lastOp.g /\ ~stale[g].origin /\ ~stale[g].halfSize

\* ------------------------------------------------------------------------
\* Properties of snap groups whose windows are tabbed
\* ------------------------------------------------------------------------
MultiTabbed(w) == tabGroup[w] # NoTabGroup /\ Len(tabs[tabGroup[w]]) >= 2

\* C29: in every reachable state the rootWindow of a non-empty snap group is
\* windows[0], unless windows[0] is a tab of a tab group of two or more tabs,
\* in which case it is that tab group's tab strip; the rootWindow of an empty
\* group is null.
C29_RootIsFirstWindowOrItsTabStrip ==
    \A g \in Groups :
        rootWindow[g] = IF windows[g] = <<>> THEN <<"null", 0>>
                        ELSE IF MultiTabbed(windows[g][1]) THEN <<"tabstrip", tabGroup[windows[g][1]]>>
                        ELSE <<"window", windows[g][1]>>

\* C30: in every reachable state the entities of a snap group have no
\* duplicates and are the member windows that are not tabs of a tab group of
\* two or more tabs, and one entry for each such tab group that has a member
\* in the snap group.
C30_EntitiesAreWindowsAndTabGroups ==
    \A g \in Groups :
        /\ \A i, j \in 1..Len(entities[g]) : entities[g][i] = entities[g][j] => i = j
        /\ Range(entities[g]) =
              {<<"window", w>> : w \in {x \in Range(windows[g]) : ~MultiTabbed(x)}}
              \cup {<<"tabGroup", tabGroup[w]>> : w \in {x \in Range(windows[g]) : MultiTabbed(x)}}

\* ------------------------------------------------------------------------
\* C31: membership signals fire after all state updates. A listener of
\* onWindowAdded(g, w) finds w in g.windows, w.getSnapGroup() = g and w in no
\* other group's list; a listener of onWindowRemoved(g, w), when w moves to
\* another group, finds w out of g.windows, g's entities and root not
\* referring to w, and w.getSnapGroup() other than g; onDestroyed of a group
\* follows its onWindowRemoved.
\* ------------------------------------------------------------------------
AddedAfterUpdates(i) ==
    emitted[i][1] = "onWindowAdded" =>
        /\ observed[i].inWindows
        /\ observed[i].snapGroup = emitted[i][2]
        /\ observed[i].holders = {emitted[i][2]}

RemovedAfterUpdates(i) ==
    (emitted[i][1] = "onWindowRemoved" /\ lastOp.op = "addWindow") =>
        /\ ~observed[i].inWindows
        /\ ~observed[i].inEntities
        /\ ~observed[i].isRoot
        /\ observed[i].snapGroup # emitted[i][2]

DestroyedAfterRemoved(i) ==
    emitted[i][1] = "onDestroyed" =>
        \E j \in 1..(i - 1) : emitted[j][1] = "onWindowRemoved" /\ emitted[j][2] = emitted[i][2]

C31_SignalsFireAfterStateUpdates ==
    \A i \in 1..Len(emitted) :
        AddedAfterUpdates(i) /\ RemovedAfterUpdates(i) /\ DestroyedAfterRemoved(i)

\* ------------------------------------------------------------------------
\* C32: whatever the interleaving of removeTabGroup calls with each other and
\* with addTabGroup, the call that completes removes the tab group whose ID
\* it was given and no other, and tabGroupRemoved is emitted at most once
\* per tab group; a tab group leaves the list only through such a call.
\* ------------------------------------------------------------------------
Completes(c) == calls[c].pc = "close" /\ calls'[c] = Idle

C32_RemoveTabGroupRemovesItsGroupOnly ==
    [][/\ \A c \in Calls :
             Completes(c) =>
                 /\ ~includes(tabGroups', calls[c].group)
                 /\ \A ID \in GroupIDs \ {calls[c].group} :
                        includes(tabGroups, ID) => includes(tabGroups', ID)
                 /\ signals'[calls[c].group].removed <= 1
       /\ \A ID \in GroupIDs :
             (includes(tabGroups, ID) /\ ~includes(tabGroups', ID)) =>
                 \E c \in Calls : Completes(c) /\ calls[c].group = ID]_vars

\* ------------------------------------------------------------------------
\* C33: through any sequence of drags, each committed after its transforms
\* have been handled, getPosition() is null from a drag's commit until the
\* next transform event, and is a position while a window is being moved
\* (once start has read the mouse position).
\* ------------------------------------------------------------------------
C33_PositionNullBetweenDrags ==
    mtInOrder =>
        /\ mtDrag = 0 => getPosition(MouseState) = MouseNull
        /\ (mtDrag # 0 /\ mtPending = <<>>) => getPosition(MouseState) # MouseNull

\* ------------------------------------------------------------------------
\* C34: a commit delivered while start of an earlier transform of the window
\* awaits the mouse position takes effect after it: once both have
\* completed, window and mouseOffset are null and getPosition() is null.
\* ------------------------------------------------------------------------
C34_CommitAfterPendingTransforms ==
    (mtRaced /\ mtDrag = 0 /\ mtPending = <<>>) =>
        /\ mtWindow = 0
        /\ mtMouseOffset = 0
        /\ getPosition(MouseState) = MouseNull

\* ------------------------------------------------------------------------
\* Properties of the preview pool
\* ------------------------------------------------------------------------
Previews == pvActive \o pvFree
Serials(previews) == {previews[i].serial : i \in 1..Len(previews)}

\* C35: through show and hide no preview window is destroyed: the number of
\* previews (active + free) never decreases and is at least 3, every preview
\* constructed is in exactly one of the two lists, and after hide() the
\* active list is empty and activeGroup is null.
C35_PreviewsNeverDestroyed ==
    [][/\ Len(pvActive') + Len(pvFree') >= Len(pvActive) + Len(pvFree)
       /\ Len(pvActive') + Len(pvFree') >= INITIAL_FREE_WINDOWS
       /\ Serials(pvActive') \cup Serials(pvFree') = 1..pvCreated'
       /\ Cardinality(Serials(pvActive' \o pvFree')) = Len(pvActive') + Len(pvFree')
       /\ pvCall'.op = "hide" => (pvActive' = <<>> /\ pvActiveGroup' = 0)]_vars

\* C35 witness: a preview window created for a fourth window of a group has
\* been returned to the free list by hide()
C35_Witness ==
    /\ pvCall.op = "hide"
    /\ pvCreated > INITIAL_FREE_WINDOWS
    /\ Len(pvFree) = pvCreated

\* C36: after show(target) the active list holds exactly one preview per
\* window of the target's group, each bound to a distinct member and none to
\* a window outside the group; the previews of the free list are bound to
\* no window.
C36_OnePreviewPerMember ==
    /\ pvCall.op = "show" =>
           /\ Len(pvActive) = Cardinality(pvCall.members)
           /\ {pvActive[i].snapWindow : i \in 1..Len(pvActive)} = pvCall.members
    /\ \A i \in 1..Len(pvFree) : pvFree[i].snapWindow = 0

\* C36 witness: a show for a group that lost one window and gained another
\* since the previous show, with four previews in all
C36_Witness ==
    /\ pvCall.op = "show"
    /\ pvCreated > INITIAL_FREE_WINDOWS
    /\ Len(pvActive) = 2
    /\ pvActive[1].serial > pvActive[2].serial
    /\ Len(pvFree) = 2

\* ------------------------------------------------------------------------
\* C37 (as stated): after swapTab(add, swapWith) on a tab group, the active
\* tab of the group is one of its tabs: add, if swapWith was the active tab;
\* otherwise the active tab it had, and add is hidden.
\* ------------------------------------------------------------------------
ActiveAfterSwap ==
    LET after == output.result.groupTabs[SwapGroup]
        active == output.result.active[SwapGroup]
    IN /\ includes(after, active)
       /\ IF input.active[SwapGroup] = input.swapWith
          THEN active = input.add
          ELSE active = input.active[SwapGroup] /\ input.add \in output.result.hidden

C37_SwapTabKeepsActiveTabValid ==
    (SwapDone /\ SwapGroup # 0) => ActiveAfterSwap

\* C37 (amended): the same, when add is not a tab of any tab group.
C37_SwapTabOfNewWindowKeepsActiveTabValid ==
    (SwapDone /\ SwapGroup # 0
        /\ getTabGroupByApp(input.tabGroups, input.groupTabs, input.add) = 0) => ActiveAfterSwap

\* C37 witness: the active tab of a group of three is swapped for a new window
C37_Witness ==
    /\ SwapDone
    /\ SwapGroup # 0
    /\ getTabGroupByApp(input.tabGroups, input.groupTabs, input.add) = 0
    /\ Len(input.groupTabs[SwapGroup]) = 3
    /\ input.active[SwapGroup] = input.swapWith
    /\ output.result.active[SwapGroup] = input.add
    /\ output.result.hidden = {}

\* ------------------------------------------------------------------------
\* C38: when a window that has been a member of several snap groups in turn
\* is torn down, it is removed from its current snap group exactly once
\* (one onWindowRemoved, for that group only), the other groups are left as
\* they are, and afterwards the window is in no group's window list.
\* ------------------------------------------------------------------------
TornDown(w) == life[w] = "live" /\ life'[w] = "dead" /\ registered[w]

C38_TeardownRemovesFromCurrentGroupOnce ==
    [][\A w \in Windows :
          TornDown(w) =>
              /\ Count(emitted', <<"onWindowRemoved", snapGroup[w], w>>) = 1
              /\ \A g \in Groups \ {snapGroup[w]} :
                     /\ windows'[g] = windows[g]
                     /\ <<"onWindowRemoved", g, w>> \notin Range(emitted')
              /\ \A g \in Groups : ~includes(windows'[g], w)]_vars

\* C38 witness: window 1, first placed in group 1 and since moved to another
\* group that it shares with a second window, has been torn down
C38_Witness ==
    /\ lastOp.op = "teardown"
    /\ lastOp.w = 1
    /\ lastOp.g # 1
    /\ <<"onWindowRemoved", lastOp.g, 1>> \in Range(emitted)
    /\ Len(windows[lastOp.g]) >= 1


\* C39: every blob returned by getTabSaveInfo names as groupInfo.active one of
\* the identities of its own tabs list, whatever ran while the call was at its awaits
C39_BlobActiveIsOneOfItsTabs ==
    saveCall.pc = "returned" =>
        \A i \in 1..Len(saveCall.captured) :
            includes(saveCall.captured[i].tabs, saveCall.captured[i].active)


\* C40: recomputing the pseudo-window's bounds is idempotent: after a run of
\* setBounds (the tab set's initialisation, or a transform event of a tab's or
\* the tab strip's window), one more run with the tab strip's and the active
\* tab's geometry as they are leaves center and halfSize of getState() as they are
C40_SetBoundsIsIdempotent ==
    tsRan =>
        /\ getState(setBounds(TabSetState)).center = getState(TabSetState).center
        /\ getState(setBounds(TabSetState)).halfSize = getState(TabSetState).halfSize

====
